---- MODULE Spec2Model ----
(***************************************************************************)
(* Election evaluation and divergence search of the starvote simulation    *)
(* scripts: pairwise tally, Condorcet / Score / STAR resolvers, tiebreak    *)
(* strategies and the divergence classifier, applied to ballot profiles.    *)
(***************************************************************************)
EXTENDS Integers, Sequences, FiniteSets, TLC

\* ------------------------------------------------------------------------
\* Bounds and program constants
\* ------------------------------------------------------------------------

\* largest number of ballots in a profile (NUM_BALLOTS of a configuration)
MaxBallots == 4

\* largest score of the score menu (max(VALID_SCORES) of a configuration)
MaxScore == 4

\* NUM_CANDIDATES of sim_total_divergence3.py
NUM_CANDIDATES == 3

\* default sort key of a candidate missing from order_map
UnlistedRank == 999

\* how often a tiebreaker object is called with one tie
MaxCalls == 2

\* the score menu of a configuration, a sorted list like [0, 2, 5]
VALID_SCORES == <<0, 1, MaxScore>>

\* Python's None
None == "None"

\* chr(65 + i)
Chr65(i) == <<"A", "B", "C", "D", "E">>[i + 1]

\* position of a candidate label in alphabetical order (string comparison)
Ord(c) == CHOOSE i \in 0..4 : Chr65(i) = c

\* candidates = [chr(65 + i) for i in range(n)]
CandidateList(n) == [i \in 1..n |-> Chr65(i - 1)]

Range(s) == {s[i] : i \in 1..Len(s)}

\* the 0-based position of c in a list, as enumerate() numbers it
IndexOf(s, c) == (CHOOSE i \in 1..Len(s) : s[i] = c) - 1

\* ------------------------------------------------------------------------
\* Ballot space: menu = itertools.product(VALID_SCORES, repeat=n)
\* ------------------------------------------------------------------------

RECURSIVE Product(_)
Product(n) ==
    IF n = 0 THEN << <<>> >>
    ELSE LET rest == Product(n - 1)
             nr == Len(rest)
             nv == Len(VALID_SCORES)
         IN [i \in 1..(nv * nr) |->
                <<VALID_SCORES[((i - 1) \div nr) + 1]>> \o rest[((i - 1) % nr) + 1]]

\* b_dicts = [{candidates[j]: val for j, val in enumerate(b)} for b in ballot_set]
BallotDict(cands, b) == [c \in Range(cands) |-> b[IndexOf(cands, c) + 1]]

\* dict.get(c, 0)
Get(b, c) == IF c \in DOMAIN b THEN b[c] ELSE 0

\* sum(1 for b in ballots if b.get(x, 0) > b.get(y, 0))
CountPrefer(bs, x, y) ==
    Cardinality({i \in 1..Len(bs) : Get(bs[i], x) > Get(bs[i], y)})

\* sum(1 for b in ballots if b[x] > b[y])
CountPreferStrict(bs, x, y) ==
    Cardinality({i \in 1..Len(bs) : bs[i][x] > bs[i][y]})

\* sum(b.get(c, 0) for b in ballots)
RECURSIVE SumScores(_, _)
SumScores(bs, c) ==
    IF bs = <<>> THEN 0 ELSE Get(Head(bs), c) + SumScores(Tail(bs), c)

\* ------------------------------------------------------------------------
\* Condorcet resolver
\* ------------------------------------------------------------------------

\* a comparison that lets an equal count pass as beating
BeatsOrTiesOpponent(cand_wins, opp_wins) == cand_wins >= opp_wins

\* sim_star_crunch.get_condorcet_winner: "if not (cand_wins > opp_wins)" fails
\* the candidate
BeatsOpponent(cand_wins, opp_wins) == cand_wins > opp_wins

\* inner loop of get_condorcet_winner: opponents from position oi on;
\* checked collects the opponents the candidate was compared against
RECURSIVE OpponentLoop(_, _, _, _)
OpponentLoop(bs, cands, cand, oi) ==
    IF oi > Len(cands) THEN [beaten_all |-> TRUE, checked |-> {}]
    ELSE IF cands[oi] = cand THEN OpponentLoop(bs, cands, cand, oi + 1)
    ELSE LET opponent == cands[oi]
             cand_wins == CountPrefer(bs, cand, opponent)
             opp_wins == CountPrefer(bs, opponent, cand)
         IN IF ~BeatsOpponent(cand_wins, opp_wins)
            THEN [beaten_all |-> FALSE, checked |-> {opponent}]
            ELSE LET r == OpponentLoop(bs, cands, cand, oi + 1)
                 IN [beaten_all |-> r.beaten_all, checked |-> r.checked \cup {opponent}]

\* outer loop of get_condorcet_winner: candidates from position ci on
RECURSIVE CandidateLoop(_, _, _)
CandidateLoop(bs, cands, ci) ==
    IF ci > Len(cands) THEN [winner |-> None, checked |-> {}]
    ELSE LET r == OpponentLoop(bs, cands, cands[ci], 1)
         IN IF r.beaten_all
            THEN [winner |-> cands[ci], checked |-> r.checked]
            ELSE CandidateLoop(bs, cands, ci + 1)

\* sim_star_crunch.get_condorcet_winner
get_condorcet_winner_crunch(bs, cands) == CandidateLoop(bs, cands, 1)

\* sim_total_divergence3.get_condorcet_winner: the same loops, the two
\* counts written as generator sums
RECURSIVE OpponentLoopDiv3(_, _, _, _)
OpponentLoopDiv3(bs, cands, cand, oi) ==
    IF oi > Len(cands) THEN [beaten_all |-> TRUE, checked |-> {}]
    ELSE IF cand = cands[oi] THEN OpponentLoopDiv3(bs, cands, cand, oi + 1)
    ELSE LET opp == cands[oi]
             c_wins == CountPrefer(bs, cand, opp)
             o_wins == CountPrefer(bs, opp, cand)
         IN IF ~(c_wins > o_wins)
            THEN [beaten_all |-> FALSE, checked |-> {opp}]
            ELSE LET r == OpponentLoopDiv3(bs, cands, cand, oi + 1)
                 IN [beaten_all |-> r.beaten_all, checked |-> r.checked \cup {opp}]

RECURSIVE CandidateLoopDiv3(_, _, _)
CandidateLoopDiv3(bs, cands, ci) ==
    IF ci > Len(cands) THEN [winner |-> None, checked |-> {}]
    ELSE LET r == OpponentLoopDiv3(bs, cands, cands[ci], 1)
         IN IF r.beaten_all
            THEN [winner |-> cands[ci], checked |-> r.checked]
            ELSE CandidateLoopDiv3(bs, cands, ci + 1)

get_condorcet_winner_div3(bs, cands) == CandidateLoopDiv3(bs, cands, 1)

\* a comparison that fails the candidate only when it is behind
FailsOnlyWhenBehind(c_wins, o_wins) == c_wins < o_wins

\* the head-to-head comparison of sim_total_divergence_CW_SCORE_RUNOFF:
\* "if c_wins <= o_wins" fails the candidate (it must strictly win)
FailsHeadToHead(c_wins, o_wins) == c_wins <= o_wins

\* sim_total_divergence_CW_SCORE_RUNOFF.get_condorcet_winner (b[cand], no default)
RECURSIVE OpponentLoopRunoff(_, _, _, _)
OpponentLoopRunoff(bs, cands, cand, oi) ==
    IF oi > Len(cands) THEN [beaten_all |-> TRUE, checked |-> {}]
    ELSE IF cand = cands[oi] THEN OpponentLoopRunoff(bs, cands, cand, oi + 1)
    ELSE LET opp == cands[oi]
             c_wins == CountPreferStrict(bs, cand, opp)
             o_wins == CountPreferStrict(bs, opp, cand)
         IN IF FailsHeadToHead(c_wins, o_wins)
            THEN [beaten_all |-> FALSE, checked |-> {opp}]
            ELSE LET r == OpponentLoopRunoff(bs, cands, cand, oi + 1)
                 IN [beaten_all |-> r.beaten_all, checked |-> r.checked \cup {opp}]

RECURSIVE CandidateLoopRunoff(_, _, _)
CandidateLoopRunoff(bs, cands, ci) ==
    IF ci > Len(cands) THEN [winner |-> None, checked |-> {}]
    ELSE LET r == OpponentLoopRunoff(bs, cands, cands[ci], 1)
         IN IF r.beaten_all
            THEN [winner |-> cands[ci], checked |-> r.checked]
            ELSE CandidateLoopRunoff(bs, cands, ci + 1)

get_condorcet_winner_runoff(bs, cands) == CandidateLoopRunoff(bs, cands, 1)

\* ------------------------------------------------------------------------
\* Pairwise tally
\* ------------------------------------------------------------------------

\* a tally that counts an equal pair of scores as a vote against
CountBallotTieAgainst(r, s_i, s_j) ==
    IF s_i > s_j THEN <<r[1] + 1, r[2], r[3]>> ELSE <<r[1], r[2] + 1, r[3]>>

\* add_extra_expl.calculate_preference_matrix: one ballot with the scores
\* s_i and s_j added to the counts r = <<for_i, against_i, no_pref>>
CountBallot(r, s_i, s_j) ==
    IF s_i > s_j THEN <<r[1] + 1, r[2], r[3]>>
    ELSE IF s_j > s_i THEN <<r[1], r[2] + 1, r[3]>>
    ELSE <<r[1], r[2], r[3] + 1>>

\* add_extra_expl.calculate_preference_matrix, the loop over the ballots of
\* one pair (c_i, c_j): <<for_i, against_i, no_pref>>
RECURSIVE PairLoop(_, _, _)
PairLoop(bs, c_i, c_j) ==
    IF bs = <<>> THEN <<0, 0, 0>>
    ELSE CountBallot(PairLoop(Tail(bs), c_i, c_j), Get(Head(bs), c_i), Get(Head(bs), c_j))

\* add_extra_expl.calculate_preference_matrix(candidates, ballots)
calculate_preference_matrix(cands, bs) ==
    IF bs = <<>> \/ cands = <<>> THEN None
    ELSE LET num_ballots == Len(bs)
         IN [c_i \in Range(cands) |-> [c_j \in Range(cands) |->
                IF c_i = c_j THEN <<0, 0, num_ballots>> ELSE PairLoop(bs, c_i, c_j)]]

\* generate_random_election_data: the score row of a ballot, in header order
ScoreRow(cands, b) == [i \in 1..Len(cands) |-> b[cands[i]]]

\* sim_divergence.calculate_preference_matrix, the loop over the parsed rows
\* for the header positions i and j (0-based)
RECURSIVE PairLoopRows(_, _, _)
PairLoopRows(rows, i, j) ==
    IF rows = <<>> THEN <<0, 0, 0>>
    ELSE LET ballot == Head(rows)
             r == PairLoopRows(Tail(rows), i, j)
         IN IF i < Len(ballot) /\ j < Len(ballot)
            THEN IF ballot[i + 1] > ballot[j + 1] THEN <<r[1] + 1, r[2], r[3]>>
                 ELSE IF ballot[j + 1] > ballot[i + 1] THEN <<r[1], r[2] + 1, r[3]>>
                 ELSE <<r[1], r[2], r[3] + 1>>
            ELSE r

\* sim_divergence.calculate_preference_matrix on the text of a header line
\* and one score row per ballot
calculate_preference_matrix_text(cands, rows) ==
    LET num_ballots == Len(rows)
    IN [c_i \in Range(cands) |-> [c_j \in Range(cands) |->
            IF c_i = c_j THEN <<0, 0, num_ballots>>
            ELSE PairLoopRows(rows, IndexOf(cands, c_i), IndexOf(cands, c_j))]]

\* ------------------------------------------------------------------------
\* Score resolver
\* ------------------------------------------------------------------------

\* totals = {c: sum(b.get(c, 0) for b in ballots) for c in candidates}
Totals(bs, cands) == [c \in Range(cands) |-> SumScores(bs, c)]

\* an unstable placement: before the items of equal total
InsertBeforeEqual(sorted, total) == Cardinality({i \in 1..Len(sorted) : sorted[i][2] > total})

\* where list.sort(reverse=True) puts an item among the already sorted ones:
\* behind every item whose total is not smaller (the sort is stable)
InsertPosition(sorted, total) == Cardinality({i \in 1..Len(sorted) : sorted[i][2] >= total})

\* sorted(totals.items(), key=lambda x: x[1], reverse=True), the items taken in
\* dict order, which is the order of the candidates list
RECURSIVE SortedItems(_, _, _)
SortedItems(cands, totals, k) ==
    IF k = 0 THEN <<>>
    ELSE LET s == SortedItems(cands, totals, k - 1)
             item == <<cands[k], totals[cands[k]]>>
             pos == InsertPosition(s, item[2])
         IN SubSeq(s, 1, pos) \o <<item>> \o SubSeq(s, pos + 1, Len(s))

\* sim_total_divergence3.get_score_winner: (sorted_totals[0][0], totals)
get_score_winner(bs, cands) ==
    LET totals == Totals(bs, cands)
        sorted_totals == SortedItems(cands, totals, Len(cands))
    IN [winner |-> sorted_totals[1][1], totals |-> totals]

\* sim_total_divergence_CW_SCORE_RUNOFF.get_score_winner: totals[c] += b[c]
RECURSIVE SumScoresStrict(_, _)
SumScoresStrict(bs, c) ==
    IF bs = <<>> THEN 0 ELSE Head(bs)[c] + SumScoresStrict(Tail(bs), c)

get_score_winner_runoff(bs, cands) ==
    LET totals == [c \in Range(cands) |-> SumScoresStrict(bs, c)]
        sorted_cands == SortedItems(cands, totals, Len(cands))
    IN [winner |-> sorted_cands[1][1], totals |-> totals]

\* ------------------------------------------------------------------------
\* Tiebreak strategies
\* ------------------------------------------------------------------------

\* sorted(tie, key=key): stable insertion of the first k elements of tie
RECURSIVE SortedByKey(_, _, _)
SortedByKey(tie, key, k) ==
    IF k = 0 THEN <<>>
    ELSE LET s == SortedByKey(tie, key, k - 1)
             c == tie[k]
             pos == Cardinality({i \in 1..Len(s) : key[s[i]] <= key[c]})
         IN SubSeq(s, 1, pos) \o <<c>> \o SubSeq(s, pos + 1, Len(s))

\* a slice that is one element short
SliceShort(ranked, desired) == SubSeq(ranked, 1, desired - 1)

\* ranked[:desired]
Slice(ranked, desired) == SubSeq(ranked, 1, IF desired < Len(ranked) THEN desired ELSE Len(ranked))

\* SilentSequenceTiebreaker.__call__: sorted(list(tie))[:desired]
SilentSequenceTiebreaker(tie, desired) ==
    Slice(SortedByKey(tie, [c \in Range(tie) |-> Ord(c)], Len(tie)), desired)

\* a key that puts the unlisted candidates first
OrderKeyUnlistedFirst(order_map, c) == IF c \in DOMAIN order_map THEN order_map[c] ELSE -1

\* key=lambda c: self.order_map.get(c, 999)
OrderKey(order_map, c) == IF c \in DOMAIN order_map THEN order_map[c] ELSE UnlistedRank

\* SequenceTiebreaker.__call__ and ReverseSequenceTiebreaker.__call__:
\* sorted(tie, key=...)[:desired]
SequenceTiebreakerCall(order_map, tie, desired) ==
    Slice(SortedByKey(tie, [c \in Range(tie) |-> OrderKey(order_map, c)], Len(tie)), desired)

\* SimpleTiebreaker.__call__: sorted(tie)[:desired]
SimpleTiebreaker(tie, desired) ==
    Slice(SortedByKey(tie, [c \in Range(tie) |-> Ord(c)], Len(tie)), desired)

Reversed(s) == [i \in 1..Len(s) |-> s[Len(s) + 1 - i]]

\* SequenceTiebreaker.initialize: the priority order for a mode
PreferredOrder(mode, manual_order, cands_in_csv_order) ==
    IF mode = "manual" /\ manual_order # <<>> THEN manual_order
    ELSE IF mode \in {"first", "left"} THEN cands_in_csv_order
    ELSE Reversed(cands_in_csv_order)

\* {c: i for i, c in enumerate(order)}: a later position replaces an earlier one
EnumerateMap(order) ==
    [c \in Range(order) |-> (CHOOSE i \in 1..Len(order) :
        order[i] = c /\ \A j \in 1..Len(order) : order[j] = c => j <= i) - 1]

\* sorted(list(ballots[0].keys()), reverse=True) of ReverseSequenceTiebreaker.initialize
SortedReverse(keys) ==
    Reversed(SortedByKey(keys, [c \in Range(keys) |-> Ord(c)], Len(keys)))

\* ------------------------------------------------------------------------
\* STAR resolver, quick estimates
\* ------------------------------------------------------------------------

\* a head-to-head check that gives the slot to the 3rd on equal votes
ThirdWinsOnEqualVotes(votes_for_2, votes_for_3) == votes_for_3 >= votes_for_2

\* the head-to-head check of the 2nd/3rd scoring tie: the 3rd takes the
\* finalist slot only with strictly more votes
ThirdWinsHeadToHead(votes_for_2, votes_for_3) == votes_for_3 > votes_for_2

\* a length check that lets a profile of two candidates into the 2nd/3rd
\* place check
HasSecondPlace(sorted_cands) == Len(sorted_cands) >= 2

\* "if len(sorted_cands) > 2": the 2nd/3rd place check needs a third candidate
HasThirdPlace(sorted_cands) == Len(sorted_cands) > 2

\* sim_total_divergence3.get_star_winner_quick, scoring round; cand_3 is the
\* third candidate the head-to-head check compared against, None when the
\* check was not made; reading sorted_cands[2] of two items raises IndexError
ScoringRoundQuick(bs, totals, cands) ==
    LET sorted_cands == SortedItems(cands, totals, Len(cands))
        cand_2 == sorted_cands[2][1]
        cand_3 == sorted_cands[3][1]
        votes_for_2 == CountPrefer(bs, cand_2, cand_3)
        votes_for_3 == CountPrefer(bs, cand_3, cand_2)
    IN IF HasThirdPlace(sorted_cands) /\ Len(sorted_cands) < 3
       THEN [finalist_a |-> sorted_cands[1][1], finalist_b |-> cand_2,
             cand_3 |-> "IndexError"]
       ELSE IF HasThirdPlace(sorted_cands) /\ sorted_cands[2][2] = sorted_cands[3][2]
       THEN [finalist_a |-> sorted_cands[1][1],
             finalist_b |-> IF ThirdWinsHeadToHead(votes_for_2, votes_for_3)
                            THEN cand_3 ELSE cand_2,
             cand_3 |-> cand_3]
       ELSE [finalist_a |-> sorted_cands[1][1], finalist_b |-> cand_2,
             cand_3 |-> None]

\* a runoff that resolves a tie to the first finalist
RunoffTieToFirst(finalist_a, finalist_b, v1, v2) ==
    IF v2 > v1 THEN finalist_b ELSE finalist_a

\* the result of a runoff with v1 votes for finalist_a and v2 for finalist_b
RunoffResult(finalist_a, finalist_b, v1, v2) ==
    IF v1 > v2 THEN finalist_a
    ELSE IF v2 > v1 THEN finalist_b
    ELSE None

\* sim_total_divergence3.get_star_winner_quick(ballots, candidates, totals)
get_star_winner_quick(bs, cands, totals) ==
    IF Len(cands) < 2
    THEN [winner |-> cands[1], finalist_a |-> None, finalist_b |-> None,
          cand_3 |-> None]
    ELSE LET f == ScoringRoundQuick(bs, totals, cands)
             v1 == CountPrefer(bs, f.finalist_a, f.finalist_b)
             v2 == CountPrefer(bs, f.finalist_b, f.finalist_a)
         IN [winner |-> IF f.cand_3 = "IndexError" THEN "IndexError"
                        ELSE RunoffResult(f.finalist_a, f.finalist_b, v1, v2),
             finalist_a |-> f.finalist_a, finalist_b |-> f.finalist_b,
             cand_3 |-> f.cand_3]

\* sim_total_divergence_CW_SCORE_RUNOFF.get_star_winner(ballots, candidates, totals);
\* sorted_cands[1] of a single candidate raises IndexError
get_star_winner(bs, cands, totals) ==
    IF Len(cands) < 2
    THEN [winner |-> "IndexError", finalist_a |-> cands[1], finalist_b |-> None,
          cand_3 |-> None]
    ELSE LET sorted_cands == SortedItems(cands, totals, Len(cands))
             finalist_a == sorted_cands[1][1]
             finalist_b == sorted_cands[2][1]
             a_votes == CountPreferStrict(bs, finalist_a, finalist_b)
             b_votes == CountPreferStrict(bs, finalist_b, finalist_a)
         IN [winner |-> IF a_votes > b_votes THEN finalist_a
                        ELSE IF b_votes > a_votes THEN finalist_b
                        ELSE None,
             finalist_a |-> finalist_a, finalist_b |-> finalist_b,
             cand_3 |-> None]

\* ------------------------------------------------------------------------
\* STAR resolver (starvote.election with method=starvote.star, seats=1 and
\* the SilentSequenceTiebreaker), as the specification describes it
\* ------------------------------------------------------------------------

\* the candidates of cands, in list order, whose total is t
WithTotal(cands, totals, t) == SelectSeq(cands, LAMBDA c : totals[c] = t)

MaxOf(S) == CHOOSE m \in S : \A x \in S : x <= m

\* scoring round: a tie for the top rank and a still tied 2nd/3rd place go
\* to the tiebreak strategy, a 2nd/3rd score tie first to their head-to-head
StarFinalists(bs, cands) ==
    LET totals == Totals(bs, cands)
        top == MaxOf({totals[c] : c \in Range(cands)})
        first == WithTotal(cands, totals, top)
    IN IF Len(first) >= 2
       THEN LET two == SilentSequenceTiebreaker(first, 2)
            IN [finalist_a |-> two[1], finalist_b |-> two[2]]
       ELSE LET next == MaxOf({totals[c] : c \in Range(cands) \ {first[1]}})
                second == SelectSeq(WithTotal(cands, totals, next), LAMBDA c : c # first[1])
                for_1 == CountPrefer(bs, second[1], second[2])
                for_2 == CountPrefer(bs, second[2], second[1])
            IN [finalist_a |-> first[1],
                finalist_b |->
                    IF Len(second) = 1 THEN second[1]
                    ELSE IF for_1 > for_2 THEN second[1]
                    ELSE IF for_2 > for_1 THEN second[2]
                    ELSE SilentSequenceTiebreaker(second, 1)[1]]

\* the election rejects an empty profile as invalid input
IsInvalidInput(bs) == bs = <<>>

\* the winner of the election: the sole candidate, or the finalist with
\* strictly more supporting ballots, an exact runoff tie going to the
\* tiebreak strategy; an empty profile is invalid input
StarElection(bs, cands) ==
    IF IsInvalidInput(bs) THEN "InvalidInput"
    ELSE IF Len(cands) < 2 THEN cands[1]
    ELSE LET f == StarFinalists(bs, cands)
             v1 == CountPrefer(bs, f.finalist_a, f.finalist_b)
             v2 == CountPrefer(bs, f.finalist_b, f.finalist_a)
         IN IF v1 > v2 THEN f.finalist_a
            ELSE IF v2 > v1 THEN f.finalist_b
            ELSE SilentSequenceTiebreaker(<<f.finalist_a, f.finalist_b>>, 1)[1]

\* ------------------------------------------------------------------------
\* Divergence classifier
\* ------------------------------------------------------------------------

\* a triple check that leaves out the comparison of cw with the STAR winner
IsTripleDivergenceTwoChecks(cw_, sw_, winner_) ==
    cw_ # None /\ cw_ # sw_ /\ sw_ # winner_

\* a triple check that leaves out the comparison of the Score winner with the
\* STAR winner
IsTripleDivergenceFromCondorcet(cw_, sw_, winner_) ==
    cw_ # None /\ cw_ # sw_ /\ cw_ # winner_

\* sim_total_divergence3, Phase 1: "if cw and (cw != sw) and
\* (sw != data['winner']) and (cw != data['winner'])"
IsTripleDivergence(cw_, sw_, winner_) ==
    cw_ # None /\ cw_ # sw_ /\ sw_ # winner_ /\ cw_ # winner_

\* a flag that compares the winner with the first leader only
LeaderFlagFirstOnly(leaders, winner_) ==
    IF winner_ # leaders[1] THEN <<"Y: ", leaders, "=>", winner_>> ELSE <<"N">>

\* sim_total_divergence3, Phase 1: div_flag = "N", and
\* "if data['winner'] not in leaders: div_flag = f'Y: {leaders}=>{winner}'"
LeaderFlag(leaders, winner_) ==
    IF winner_ \notin Range(leaders) THEN <<"Y: ", leaders, "=>", winner_>> ELSE <<"N">>

\* sim_total_divergence3.generate_and_analyze, Phase 1: the divergence check
\* of one evaluated profile, from the winner the STAR election reported
Phase1Check(bs, cands, winner_) ==
    LET totals == [c \in Range(cands) |-> SumScoresStrict(bs, c)]
        mx == MaxOf({totals[c] : c \in Range(cands)})
        leaders == SelectSeq(cands, LAMBDA c : totals[c] = mx)
        flag1 == LeaderFlag(leaders, winner_)
        cw_ == get_condorcet_winner_div3(bs, cands).winner
        cw_str == IF cw_ # None THEN cw_ ELSE "Cycle"
        sw_ == get_score_winner(bs, cands).winner
    IN [winner |-> winner_, cw |-> cw_, cw_str |-> cw_str, sw |-> sw_,
        div_flag |-> IF IsTripleDivergence(cw_, sw_, winner_)
                     THEN <<"Y: TRIPLE_DIV">> ELSE flag1]

\* sim_total_divergence_CW_SCORE_RUNOFF.main, "if (sw != star) and (star != cw)"
IsTotalDivergence(cw_, sw_, star_) == sw_ # star_ /\ star_ # cw_

\* sim_total_divergence_CW_SCORE_RUNOFF.main: one attempt of the search loop;
\* a "continue" leaves the later results unset
SearchAttempt(bs, cands) ==
    LET cw_ == get_condorcet_winner_runoff(bs, cands).winner
        s == get_score_winner_runoff(bs, cands)
        star_ == get_star_winner(bs, cands, s.totals).winner
    IN IF cw_ = None
       THEN [cw |-> cw_, sw |-> None, star |-> None, found |-> FALSE]
       ELSE IF s.winner = cw_
       THEN [cw |-> cw_, sw |-> s.winner, star |-> None, found |-> FALSE]
       ELSE IF star_ = None
       THEN [cw |-> cw_, sw |-> s.winner, star |-> None, found |-> FALSE]
       ELSE [cw |-> cw_, sw |-> s.winner, star |-> star_,
             found |-> IsTotalDivergence(cw_, s.winner, star_)]

\* a flag that compares the winners without asking whether cw exists
CrunchFlagUnguarded(cw_, star_winner) ==
    IF cw_ # star_winner THEN <<"Y">> ELSE <<"N">>

\* sim_star_crunch.generate_and_analyze: divergence_flag = "N";
\* "if cw: ... if cw != star_winner: divergence_flag = 'Y'"
CrunchFlag(cw_, star_winner) ==
    IF cw_ # None /\ cw_ # star_winner THEN <<"Y">> ELSE <<"N">>

\* sim_star_crunch.generate_and_analyze: the divergence logic of one evaluated
\* profile, from the winner the STAR election reported
CrunchCheck(bs, cands, star_winner) ==
    LET cw_ == get_condorcet_winner_crunch(bs, cands).winner
    IN [winner |-> star_winner, cw |-> cw_,
        cw_str |-> IF cw_ # None THEN cw_ ELSE "Cycle",
        div_flag |-> CrunchFlag(cw_, star_winner)]

\* ------------------------------------------------------------------------
\* State
\* ------------------------------------------------------------------------

VARIABLES
    candidates,  \* the candidates list (header order)
    num_ballots, \* NUM_BALLOTS of the configuration
    combo,       \* the menu positions of the ballots drawn for the profile
    ballots,     \* the profile: a list of ballot dicts
    pc,          \* which operation was applied to the profile
    matrix,      \* result of calculate_preference_matrix
    cw,          \* result of get_condorcet_winner
    score,       \* result of get_score_winner
    star,        \* result of get_star_winner_quick / get_star_winner
    row,         \* the result row of Phase 1 for the profile
    attempt,     \* the outcome of one attempt of the search loop
    tb,          \* the tiebreaker object
    call,        \* the calls made to the tiebreaker
    ballot_types, \* the menu: the list of ballot types
    chunking,    \* ROWS_PER_FILE, SAVE_FIRST_CHUNKS, SAVE_LAST_CHUNKS and the pre-calculated totals
    position,    \* the number of profiles profiles_iter has yielded
    yielded,     \* the profiles a bare profiles_iter yielded, in order
    files,       \* the chunk files written, the active chunk and the resolver calls made
    hunter,      \* the Hunter phase: clock, counters and the rows it appended
    csv_input,   \* the ballot text handed to parse_ballots_from_string, line by line
    parsed       \* what parse_ballots_from_string returned and printed

vars == <<candidates, num_ballots, combo, ballots, pc, matrix, cw, score, star, row, attempt, tb, call,
          ballot_types, chunking, position, yielded, files, hunter, csv_input, parsed>>

NoMatrix == None
NoCw == [winner |-> None, checked |-> {}]
NoScore == [winner |-> None, totals |-> <<>>]
NoStar == [winner |-> None, finalist_a |-> None, finalist_b |-> None,
           cand_3 |-> None]
NoRow == [winner |-> None, cw |-> None, cw_str |-> None, sw |-> None, div_flag |-> <<>>]
NoAttempt == [cw |-> None, sw |-> None, star |-> None, found |-> FALSE]
NoTiebreaker == [class |-> None, mode |-> None, manual_order |-> <<>>,
                 preferred_order |-> <<>>, order_map |-> <<>>]
NoCall == [tie |-> <<>>, desired |-> 0, winners |-> <<>>, prev |-> <<>>, calls |-> 0]

NoMenu == <<>>
NoChunking == [script |-> None, ROWS_PER_FILE |-> 0, SAVE_FIRST_CHUNKS |-> 0, SAVE_LAST_CHUNKS |-> 0,
               total_combinations |-> 0, total_chunks |-> 0]
NoFilename == <<>>
PartFilename(chunk_index) == <<"part", chunk_index>>
NoInterrupt == [seen |-> FALSE, caught |-> FALSE, rows_before |-> 0, appended_before |-> 0]
NoFiles == [active_chunk_index |-> -1, last_filename |-> NoFilename, first_row_written |-> FALSE,
            parts |-> <<>>, solved |-> <<>>,
            open_files |-> {}, layout |-> <<>>, console |-> <<>>, interrupt |-> NoInterrupt]
NoInput == <<>>
NoParsed == [script |-> None, headers |-> <<>>, ballots |-> <<>>, warnings |-> <<>>]
NoHunter == [SEARCH_TIME_LIMIT |-> 0, start_time |-> 0, now |-> 0,
             scenarios_checked |-> 0, found_in_hunter |-> FALSE,
             appended |-> <<>>, printed |-> <<>>]

results == <<matrix, cw, score, star, row, attempt>>

text == <<csv_input, parsed>>

run == <<ballot_types, chunking, position, yielded, files, hunter, text>>

\* no enumeration run and no Hunter phase is in progress
RunIdle ==
    /\ ballot_types = NoMenu
    /\ chunking = NoChunking
    /\ position = 0
    /\ yielded = <<>>
    /\ csv_input = NoInput
    /\ parsed = NoParsed
    /\ files = NoFiles
    /\ hunter = NoHunter

config == <<candidates, num_ballots>>

profile == <<candidates, num_ballots, combo, ballots>>

\* a configuration with up to NUM_CANDIDATES candidates and up to MaxBallots
\* ballots per profile, before a ballot of the profile is drawn
Init ==
    /\ \E n \in 1..NUM_CANDIDATES, k \in 0..MaxBallots :
          /\ candidates = CandidateList(n)
          /\ num_ballots = k
    /\ combo = <<>>
    /\ ballots = <<>>
    /\ pc = "profile"
    /\ matrix = NoMatrix
    /\ cw = NoCw
    /\ score = NoScore
    /\ star = NoStar
    /\ row = NoRow
    /\ attempt = NoAttempt
    /\ tb = NoTiebreaker
    /\ call = NoCall
    /\ RunIdle

\* ------------------------------------------------------------------------
\* Operations on a profile
\* ------------------------------------------------------------------------

\* itertools.combinations_with_replacement(menu, NUM_BALLOTS): the next ballot
\* of the profile is a menu entry at or behind the position of the previous one
DrawBallot ==
    /\ pc = "profile"
    /\ Len(ballots) < num_ballots
    /\ LET menu == Product(Len(candidates))
       IN \E i \in (IF combo = <<>> THEN 1 ELSE combo[Len(combo)])..Len(menu) :
             /\ combo' = Append(combo, i)
             /\ ballots' = Append(ballots, BallotDict(candidates, menu[i]))
    /\ UNCHANGED <<config, pc, results, tb, call, run>>

\* the profile has its NUM_BALLOTS ballots and no operation was applied to it
ProfileDrawn == pc = "profile" /\ Len(ballots) = num_ballots

\* add_extra_expl.calculate_preference_matrix(candidates, ballots)
CalculatePreferenceMatrix ==
    /\ ProfileDrawn
    /\ matrix' = calculate_preference_matrix(candidates, ballots)
    /\ pc' = "matrix"
    /\ UNCHANGED <<profile, cw, score, star, row, attempt, tb, call, run>>

\* sim_divergence.calculate_preference_matrix(csv_string), the text being the
\* header and the score rows generate_random_election_data wrote
CalculatePreferenceMatrixText ==
    /\ ProfileDrawn
    /\ matrix' = calculate_preference_matrix_text(candidates,
                    [i \in 1..Len(ballots) |-> ScoreRow(candidates, ballots[i])])
    /\ pc' = "matrix_text"
    /\ UNCHANGED <<profile, cw, score, star, row, attempt, tb, call, run>>

NextTally == DrawBallot \/ CalculatePreferenceMatrix \/ CalculatePreferenceMatrixText

SpecTally == Init /\ [][NextTally]_vars

\* sim_star_crunch.get_condorcet_winner(ballots, candidates)
CondorcetCrunch ==
    /\ ProfileDrawn
    /\ cw' = get_condorcet_winner_crunch(ballots, candidates)
    /\ pc' = "cw_crunch"
    /\ UNCHANGED <<profile, matrix, score, star, row, attempt, tb, call, run>>

\* sim_total_divergence3.get_condorcet_winner(ballots, candidates)
CondorcetDiv3 ==
    /\ ProfileDrawn
    /\ cw' = get_condorcet_winner_div3(ballots, candidates)
    /\ pc' = "cw_div3"
    /\ UNCHANGED <<profile, matrix, score, star, row, attempt, tb, call, run>>

\* sim_total_divergence_CW_SCORE_RUNOFF.get_condorcet_winner(ballots, candidates)
CondorcetRunoff ==
    /\ ProfileDrawn
    /\ cw' = get_condorcet_winner_runoff(ballots, candidates)
    /\ pc' = "cw_runoff"
    /\ UNCHANGED <<profile, matrix, score, star, row, attempt, tb, call, run>>

NextCondorcet == DrawBallot \/ CondorcetCrunch \/ CondorcetDiv3 \/ CondorcetRunoff

SpecCondorcet == Init /\ [][NextCondorcet]_vars

\* sim_total_divergence3.get_score_winner(ballots, candidates)
ScoreDiv3 ==
    /\ ProfileDrawn
    /\ score' = get_score_winner(ballots, candidates)
    /\ pc' = "score_div3"
    /\ UNCHANGED <<profile, matrix, cw, star, row, attempt, tb, call, run>>

\* sim_total_divergence_CW_SCORE_RUNOFF.get_score_winner(ballots, candidates)
ScoreRunoff ==
    /\ ProfileDrawn
    /\ score' = get_score_winner_runoff(ballots, candidates)
    /\ pc' = "score_runoff"
    /\ UNCHANGED <<profile, matrix, cw, star, row, attempt, tb, call, run>>

NextScore == DrawBallot \/ ScoreDiv3 \/ ScoreRunoff

SpecScore == Init /\ [][NextScore]_vars

\* sim_total_divergence3.get_star_winner_quick(ballots, candidates, totals),
\* totals as get_score_winner returned them
StarQuick ==
    /\ ProfileDrawn
    /\ star' = get_star_winner_quick(ballots, candidates,
                                      get_score_winner(ballots, candidates).totals)
    /\ pc' = "star_quick"
    /\ UNCHANGED <<profile, matrix, cw, score, row, attempt, tb, call, run>>

\* sim_total_divergence_CW_SCORE_RUNOFF.get_star_winner(ballots, candidates, totals)
StarRunoff ==
    /\ ProfileDrawn
    /\ star' = get_star_winner(ballots, candidates,
                                get_score_winner_runoff(ballots, candidates).totals)
    /\ pc' = "star_runoff"
    /\ UNCHANGED <<profile, matrix, cw, score, row, attempt, tb, call, run>>

NextStar == DrawBallot \/ StarQuick \/ StarRunoff

SpecStar == Init /\ [][NextStar]_vars

\* sim_total_divergence3.generate_and_analyze, Phase 1: one materialized
\* profile is solved and classified, and its row is written
Phase1Row ==
    /\ ProfileDrawn
    /\ ~IsInvalidInput(ballots)
    /\ row' = Phase1Check(ballots, candidates, StarElection(ballots, candidates))
    /\ pc' = "row"
    /\ UNCHANGED <<profile, matrix, cw, score, star, attempt, tb, call, run>>

\* the STAR election rejects the profile: no row is written for it
Phase1Rejected ==
    /\ ProfileDrawn
    /\ IsInvalidInput(ballots)
    /\ pc' = "rejected"
    /\ UNCHANGED <<profile, matrix, cw, score, star, row, attempt, tb, call, run>>

\* sim_total_divergence_CW_SCORE_RUNOFF.main: one attempt on a scenario
SearchLoopAttempt ==
    /\ ProfileDrawn
    /\ attempt' = SearchAttempt(ballots, candidates)
    /\ pc' = "attempt"
    /\ UNCHANGED <<profile, matrix, cw, score, star, row, tb, call, run>>

NextClassify == DrawBallot \/ Phase1Row \/ Phase1Rejected \/ SearchLoopAttempt

SpecClassify == Init /\ [][NextClassify]_vars

\* sim_star_crunch.generate_and_analyze: one materialized profile is solved
\* and classified, and its row is written
CrunchRow ==
    /\ ProfileDrawn
    /\ ~IsInvalidInput(ballots)
    /\ row' = CrunchCheck(ballots, candidates, StarElection(ballots, candidates))
    /\ pc' = "crunch_row"
    /\ UNCHANGED <<profile, matrix, cw, score, star, attempt, tb, call, run>>

\* the rows of sim_star_crunch alone
NextCrunch == DrawBallot \/ CrunchRow

SpecCrunch == Init /\ [][NextCrunch]_vars

\* the rows of both scripts
NextVerdict == DrawBallot \/ CrunchRow \/ Phase1Row \/ Phase1Rejected

SpecVerdict == Init /\ [][NextVerdict]_vars

\* ------------------------------------------------------------------------
\* Tiebreaker objects
\* ------------------------------------------------------------------------

Modes == {"first", "left", "last", "right", "manual"}

\* the lists over S without a repeated element
ListsOf(S) ==
    UNION {{s \in [1..k -> S] : \A i, j \in 1..k : s[i] = s[j] => i = j} :
                k \in 0..Cardinality(S)}

\* the tiebreaker objects the scripts construct
Tiebreakers ==
    {[class |-> "SequenceTiebreaker", mode |-> m, manual_order |-> o,
      preferred_order |-> <<>>, order_map |-> <<>>] :
        m \in Modes, o \in ListsOf(Range(CandidateList(NUM_CANDIDATES)))}
    \cup
    {[class |-> c, mode |-> IF c = "SilentSequenceTiebreaker" THEN "left" ELSE None,
      manual_order |-> <<>>, preferred_order |-> <<>>, order_map |-> <<>>] :
        c \in {"SimpleTiebreaker", "SilentSequenceTiebreaker", "ReverseSequenceTiebreaker"}}

\* a constructed tiebreaker and the ballots of an election, whose first ballot
\* gives the candidates in header order
InitTie ==
    /\ \E n \in 1..NUM_CANDIDATES :
          /\ candidates \in {s \in ListsOf(Range(CandidateList(n))) : Len(s) = n}
          /\ ballots = <<[c \in Range(CandidateList(n)) |-> 0]>>
    /\ num_ballots = 1
    /\ combo = <<1>>
    /\ pc = "constructed"
    /\ tb \in Tiebreakers
    /\ call = NoCall
    /\ matrix = NoMatrix
    /\ cw = NoCw
    /\ score = NoScore
    /\ star = NoStar
    /\ row = NoRow
    /\ attempt = NoAttempt
    /\ RunIdle

\* SequenceTiebreaker.initialize(options, ballots)
SequenceInitialize ==
    /\ pc = "constructed"
    /\ tb.class = "SequenceTiebreaker"
    /\ LET preferred_order == PreferredOrder(tb.mode, tb.manual_order, candidates)
       IN tb' = [tb EXCEPT !.preferred_order = preferred_order,
                           !.order_map = EnumerateMap(preferred_order)]
    /\ pc' = "initialized"
    /\ UNCHANGED <<profile, call, results, run>>

\* ReverseSequenceTiebreaker.initialize(options, ballots)
ReverseInitialize ==
    /\ pc = "constructed"
    /\ tb.class = "ReverseSequenceTiebreaker"
    /\ tb' = [tb EXCEPT !.order_map =
                IF ballots # <<>> THEN EnumerateMap(SortedReverse(candidates)) ELSE <<>>]
    /\ pc' = "initialized"
    /\ UNCHANGED <<profile, call, results, run>>

\* the ties a tiebreaker is called with: tied candidates of the election
Ties == ListsOf(Range(candidates)) \ {<<>>}

\* the tie and the count of a call: a first call draws them, a repeated call
\* is made with the same ones
CallInputs(tie, desired) ==
    /\ call.calls < MaxCalls
    /\ call.calls > 0 => tie = call.tie /\ desired = call.desired

Called(tie, desired, winners) ==
    [tie |-> tie, desired |-> desired, winners |-> winners,
     prev |-> call.winners, calls |-> call.calls + 1]

\* SequenceTiebreaker.__call__(options, tie, desired, exception)
SequenceCall ==
    /\ pc \in {"initialized", "called"}
    /\ tb.class = "SequenceTiebreaker"
    /\ \E tie \in Ties : \E desired \in 1..Len(tie) :
          /\ CallInputs(tie, desired)
          /\ call' = Called(tie, desired, SequenceTiebreakerCall(tb.order_map, tie, desired))
    /\ pc' = "called"
    /\ UNCHANGED <<profile, tb, results, run>>

\* ReverseSequenceTiebreaker.__call__(options, tie, desired, exception)
ReverseCall ==
    /\ pc \in {"initialized", "called"}
    /\ tb.class = "ReverseSequenceTiebreaker"
    /\ \E tie \in Ties : \E desired \in 1..Len(tie) :
          /\ CallInputs(tie, desired)
          /\ call' = Called(tie, desired, SequenceTiebreakerCall(tb.order_map, tie, desired))
    /\ pc' = "called"
    /\ UNCHANGED <<profile, tb, results, run>>

\* SimpleTiebreaker.__call__(options, tie, desired, exception)
SimpleCall ==
    /\ pc \in {"constructed", "called"}
    /\ tb.class = "SimpleTiebreaker"
    /\ \E tie \in Ties : \E desired \in 1..Len(tie) :
          /\ CallInputs(tie, desired)
          /\ call' = Called(tie, desired, SimpleTiebreaker(tie, desired))
    /\ pc' = "called"
    /\ UNCHANGED <<profile, tb, results, run>>

\* SilentSequenceTiebreaker.__call__(options, tie, desired, exception)
SilentCall ==
    /\ pc \in {"constructed", "called"}
    /\ tb.class = "SilentSequenceTiebreaker"
    /\ \E tie \in Ties : \E desired \in 1..Len(tie) :
          /\ CallInputs(tie, desired)
          /\ call' = Called(tie, desired, SilentSequenceTiebreaker(tie, desired))
    /\ pc' = "called"
    /\ UNCHANGED <<profile, tb, results, run>>

NextTie ==
    \/ SequenceInitialize
    \/ ReverseInitialize
    \/ SequenceCall
    \/ ReverseCall
    \/ SimpleCall
    \/ SilentCall

SpecTie == InitTie /\ [][NextTie]_vars

\* ------------------------------------------------------------------------
\* Ballot-space enumeration
\* ------------------------------------------------------------------------

\* NUM_CANDIDATES of sim_star_crunch.py
NUM_CANDIDATES_CRUNCH == 2

\* the chunking configuration of sim_star_crunch.py
ROWS_PER_FILE == 3000
SAVE_FIRST_CHUNKS == 2
SAVE_LAST_CHUNKS == 2

\* itertools.product(scores, repeat=n), as a list
RECURSIVE ProductOf(_, _)
ProductOf(scores, n) ==
    IF n = 0 THEN << <<>> >>
    ELSE LET rest == ProductOf(scores, n - 1)
             nr == Len(rest)
         IN [k \in 1..(Len(scores) * nr) |->
                <<scores[((k - 1) \div nr) + 1]>> \o rest[((k - 1) % nr) + 1]]

\* range(max_score + 1)
ScoreRange(max_score) == [k \in 1..(max_score + 1) |-> k - 1]

\* Sim_unique_ballots.generate_all_unique_ballots(num_candidates, max_score)
generate_all_unique_ballots(num_candidates, max_score) ==
    [candidates |-> CandidateList(num_candidates),
     ballot_permutations |-> ProductOf(ScoreRange(max_score), num_candidates)]

\* b ** e
RECURSIVE Power(_, _)
Power(b, e) == IF e = 0 THEN 1 ELSE b * Power(b, e - 1)

\* math.comb(n, k): the product n (n-1) ... (n-k+1) / k!, built factor by factor
RECURSIVE Comb(_, _)
Comb(n, k) ==
    IF k > n THEN 0
    ELSE IF k = 0 THEN 1
    ELSE (Comb(n, k - 1) * (n - k + 1)) \div k

\* a count that forgets the "- 1" of stars and bars
TotalCombinationsOffByOne(n, k) == Comb(n + k, k)

\* total_combinations = math.comb(n + k - 1, k)
TotalCombinations(n, k) == Comb(n + k - 1, k)

\* math.ceil(a / b)
Ceil(a, b) == (a + b - 1) \div b

\* combinations_with_replacement: indices = [0] * r (menu positions from 1 here)
FirstIndices(r) == [j \in 1..r |-> 1]

\* combinations_with_replacement: the rightmost place whose index is not the
\* last menu position, 0 when there is none (the iterator returns)
Rightmost(indices, n) ==
    LET S == {j \in 1..Len(indices) : indices[j] # n}
    IN IF S = {} THEN 0 ELSE MaxOf(S)

\* a step that restarts the places to the right at the first menu position
NextIndicesResetTail(indices, n) ==
    LET j == Rightmost(indices, n)
    IN [k \in 1..Len(indices) |->
           IF k < j THEN indices[k] ELSE IF k = j THEN indices[j] + 1 ELSE 1]

\* combinations_with_replacement: indices[i:] = [indices[i] + 1] * (r - i)
NextIndices(indices, n) ==
    LET j == Rightmost(indices, n)
    IN [k \in 1..Len(indices) |-> IF k < j THEN indices[k] ELSE indices[j] + 1]

\* the tuple profiles_iter yields for the indices, as ballot dicts
\* ({candidates[j]: val for j, val in enumerate(b_tuple)} for each b_tuple)
BallotSet(cands, types, indices) ==
    [j \in 1..Len(indices) |-> BallotDict(cands, types[indices[j]])]

\* a script is configured with up to NUM_CANDIDATES_CRUNCH candidates, up to
\* MaxBallots ballots per profile and the chunking constants of the source
InitEnumerate ==
    /\ \E n \in 1..NUM_CANDIDATES_CRUNCH, k \in 0..MaxBallots :
          /\ candidates = CandidateList(n)
          /\ num_ballots = k
    /\ combo = <<>>
    /\ ballots = <<>>
    /\ pc = "configured"
    /\ matrix = NoMatrix
    /\ cw = NoCw
    /\ score = NoScore
    /\ star = NoStar
    /\ row = NoRow
    /\ attempt = NoAttempt
    /\ tb = NoTiebreaker
    /\ call = NoCall
    /\ ballot_types = NoMenu
    /\ chunking = [NoChunking EXCEPT !.script = "sim_star_crunch",
                                     !.ROWS_PER_FILE = ROWS_PER_FILE,
                                     !.SAVE_FIRST_CHUNKS = SAVE_FIRST_CHUNKS,
                                     !.SAVE_LAST_CHUNKS = SAVE_LAST_CHUNKS]
    /\ position = 0
    /\ yielded = <<>>
    /\ csv_input = NoInput
    /\ parsed = NoParsed
    /\ files = NoFiles
    /\ hunter = NoHunter

\* Sim_unique_ballots: the menu of all ballot types for scores 0..max_score
GenerateAllUniqueBallots ==
    /\ pc = "configured"
    /\ \E max_score \in 0..MaxScore :
          ballot_types' = generate_all_unique_ballots(Len(candidates), max_score).ballot_permutations
    /\ pc' = "menu_saved"
    /\ UNCHANGED <<profile, results, tb, call, chunking, position, yielded, text, files, hunter>>

\* generate_and_analyze, pre-calculations and setup: the totals, the menu
\* and the profile iterator
Precalculate ==
    /\ pc = "configured"
    /\ LET unique_ballot_types == Power(Len(VALID_SCORES), Len(candidates))
           total_combinations == TotalCombinations(unique_ballot_types, num_ballots)
       IN chunking' = [chunking EXCEPT
                          !.total_combinations = total_combinations,
                          !.total_chunks = Ceil(total_combinations, chunking.ROWS_PER_FILE)]
    /\ ballot_types' = ProductOf(VALID_SCORES, Len(candidates))
    /\ pc' = "iterating"
    /\ UNCHANGED <<profile, results, tb, call, position, yielded, text, files, hunter>>

\* profiles_iter has a next tuple: none was yielded yet, or some place of the
\* last one can still advance
HasNext == position = 0 \/ Rightmost(combo, Len(ballot_types)) # 0

\* the indices of the next tuple of profiles_iter
NextCombo ==
    IF position = 0 THEN FirstIndices(num_ballots) ELSE NextIndices(combo, Len(ballot_types))

\* next(profiles_iter) yields a profile
NextProfile ==
    /\ pc = "iterating"
    /\ HasNext
    /\ combo' = NextCombo
    /\ ballots' = BallotSet(candidates, ballot_types, NextCombo)
    /\ position' = position + 1
    /\ yielded' = Append(yielded, NextCombo)
    /\ UNCHANGED <<config, pc, results, tb, call, ballot_types, chunking, files, hunter, text>>

\* next(profiles_iter) raises StopIteration
IteratorExhausted ==
    /\ pc = "iterating"
    /\ ~HasNext
    /\ pc' = "exhausted"
    /\ UNCHANGED <<profile, results, tb, call, run>>

NextEnumerate == GenerateAllUniqueBallots \/ Precalculate \/ NextProfile \/ IteratorExhausted

SpecEnumerate == InitEnumerate /\ [][NextEnumerate]_vars

\* ------------------------------------------------------------------------
\* Boundary sampling: the chunked main loop
\* ------------------------------------------------------------------------

\* largest ROWS_PER_FILE, SAVE_FIRST_CHUNKS and SAVE_LAST_CHUNKS explored
MaxRows == 3
MaxFirst == 2
MaxLast == 2

\* the two scripts with a chunked main loop
Scripts == {"sim_star_crunch", "sim_total_divergence3"}

\* a chunk index taken from the 1-based row number
ChunkIndexOfRowNr(i, rows_per_file) == (i + 1) \div rows_per_file

\* chunk_index = i // ROWS_PER_FILE
ChunkIndex(i, rows_per_file) == i \div rows_per_file

\* is_start_block = chunk_index < SAVE_FIRST_CHUNKS
is_start_block(chunk_index, ch) == chunk_index < ch.SAVE_FIRST_CHUNKS

\* an end block that misses its first chunk
is_end_block_strict(chunk_index, ch) == chunk_index > (ch.total_chunks - ch.SAVE_LAST_CHUNKS)

\* is_end_block = chunk_index >= (total_chunks - SAVE_LAST_CHUNKS)
is_end_block(chunk_index, ch) == chunk_index >= (ch.total_chunks - ch.SAVE_LAST_CHUNKS)

\* "if not (is_start_block or is_end_block): continue", for position i
InSavedBlock(i, ch) ==
    \/ is_start_block(ChunkIndex(i, ch.ROWS_PER_FILE), ch)
    \/ is_end_block(ChunkIndex(i, ch.ROWS_PER_FILE), ch)

\* a row number that is the enumerate() index itself
RowNrOfIndex(i) == i

\* the first column of a result row, "i + 1"
RowNr(i) == i + 1

\* the result row of the profile at position i: the row number, the ballots,
\* the verdict columns, and whether the log carries the parameter block
ResultRow(script, i, types, bs, cands, with_param_block) ==
    LET winner_ == StarElection(bs, cands)
        check == IF script = "sim_star_crunch"
                 THEN CrunchCheck(bs, cands, winner_)
                 ELSE Phase1Check(bs, cands, winner_)
    IN [row_nr |-> RowNr(i), ballot_set |-> types, winner |-> check.winner,
        cw_str |-> check.cw_str, div_flag |-> check.div_flag,
        param_block |-> with_param_block]

\* open(part_filename, mode="w") when the chunk changes, then writer.writerow(row)
WriteRow(parts, active_chunk_index, chunk_index, r) ==
    [c \in DOMAIN parts \cup {chunk_index} |->
        IF c # chunk_index THEN parts[c]
        ELSE IF chunk_index # active_chunk_index THEN <<r>>
        ELSE Append(parts[c], r)]

\* a script is configured with a chunk size and the numbers of first and
\* last chunks to save
InitChunks ==
    /\ \E n \in 1..NUM_CANDIDATES_CRUNCH, k \in 1..MaxBallots :
          /\ candidates = CandidateList(n)
          /\ num_ballots = k
    /\ combo = <<>>
    /\ ballots = <<>>
    /\ pc = "configured"
    /\ matrix = NoMatrix
    /\ cw = NoCw
    /\ score = NoScore
    /\ star = NoStar
    /\ row = NoRow
    /\ attempt = NoAttempt
    /\ tb = NoTiebreaker
    /\ call = NoCall
    /\ ballot_types = NoMenu
    /\ \E s \in Scripts, r \in 1..MaxRows, f \in 0..MaxFirst, l \in 0..MaxLast :
          chunking = [NoChunking EXCEPT !.script = s,
                                        !.ROWS_PER_FILE = r,
                                        !.SAVE_FIRST_CHUNKS = f,
                                        !.SAVE_LAST_CHUNKS = l]
    /\ position = 0
    /\ yielded = <<>>
    /\ csv_input = NoInput
    /\ parsed = NoParsed
    /\ files = NoFiles
    /\ hunter = NoHunter

\* one pass of the main loop over a profile of the middle zone: "continue"
SkipProfile ==
    /\ pc = "iterating"
    /\ HasNext
    /\ ~InSavedBlock(position, chunking)
    /\ combo' = NextCombo
    /\ ballots' = BallotSet(candidates, ballot_types, NextCombo)
    /\ position' = position + 1
    /\ UNCHANGED <<config, pc, results, tb, call, ballot_types, chunking, yielded, text, files, hunter>>

\* "if chunk_index != active_chunk_index:" leaves the new chunk's file open
\* without closing the one that was open
OpenChunkKeepingOld(open_files, active_chunk_index, chunk_index) ==
    IF chunk_index # active_chunk_index
    THEN open_files \union {PartFilename(chunk_index)}
    ELSE open_files

\* "if chunk_index != active_chunk_index: if current_file: current_file.close()"
\* and then "current_file = open(part_filename, mode="w", ...)"; current_file
\* is None exactly while active_chunk_index is -1
OpenChunk(open_files, active_chunk_index, chunk_index) ==
    IF chunk_index # active_chunk_index
    THEN (IF active_chunk_index # -1
          THEN open_files \ {PartFilename(active_chunk_index)}
          ELSE open_files) \union {PartFilename(chunk_index)}
    ELSE open_files

\* what each chunk file holds, line by line: mode "w" starts the file anew,
\* "writer.writerow(csv_columns)" right after the open, "writer.writerow(row)"
\* at the end of the pass
WriteLines(layout, active_chunk_index, chunk_index) ==
    [c \in DOMAIN layout \union {chunk_index} |->
        IF c # chunk_index THEN layout[c]
        ELSE IF chunk_index # active_chunk_index THEN <<"header", "row">>
        ELSE Append(layout[c], "row")]

\* one pass of the main loop over a profile of a saved chunk: open the chunk's
\* file if the chunk changed, solve the election, write the row
MaterializeProfile ==
    /\ pc = "iterating"
    /\ HasNext
    /\ InSavedBlock(position, chunking)
    /\ LET i == position
           chunk_index == ChunkIndex(i, chunking.ROWS_PER_FILE)
           types == [j \in 1..num_ballots |-> ballot_types[NextCombo[j]]]
           bs == BallotSet(candidates, ballot_types, NextCombo)
           crunch == chunking.script = "sim_star_crunch"
           r == ResultRow(chunking.script, i, types, bs, candidates,
                          crunch /\ ~files.first_row_written)
       IN /\ combo' = NextCombo
          /\ ballots' = bs
          /\ position' = position + 1
          /\ files' = [files EXCEPT
                 !.active_chunk_index = chunk_index,
                 !.last_filename = IF crunch THEN @ ELSE PartFilename(chunk_index),
                 !.first_row_written = IF crunch THEN TRUE ELSE @,
                 !.parts = WriteRow(@, files.active_chunk_index, chunk_index, r),
                 !.solved = Append(@, i),
                 !.open_files = OpenChunk(@, files.active_chunk_index, chunk_index),
                 !.layout = WriteLines(@, files.active_chunk_index, chunk_index)]
    /\ UNCHANGED <<config, pc, results, tb, call, ballot_types, chunking, yielded, text, hunter>>

\* "finally: if current_file: current_file.close()"; sim_star_crunch then
\* prints the closing line
Finally(fs, script) ==
    [fs EXCEPT
        !.open_files = IF fs.active_chunk_index # -1
                       THEN @ \ {PartFilename(fs.active_chunk_index)}
                       ELSE @,
        !.console = IF script = "sim_star_crunch"
                    THEN Append(@, "Done. Checked start and end of combinations.")
                    ELSE @]

\* the for loop ends when the iterator is exhausted; the finally block runs
LoopEnds ==
    /\ pc = "iterating"
    /\ ~HasNext
    /\ pc' = "exhausted"
    /\ files' = Finally(files, chunking.script)
    /\ UNCHANGED <<profile, results, tb, call, ballot_types, chunking, position, yielded, text, hunter>>

NextChunks == Precalculate \/ SkipProfile \/ MaterializeProfile \/ LoopEnds

SpecChunks == InitChunks /\ [][NextChunks]_vars

\* ------------------------------------------------------------------------
\* The Hunter: timed random search after Phase 1
\* ------------------------------------------------------------------------

\* largest SEARCH_TIME_LIMIT explored, in clock ticks
MaxTime == 2

\* the order of equal-length score strings (and of tuples): s comes before t
LexLess(s, t) ==
    \E j \in 1..Len(s) : s[j] < t[j] /\ \A k \in 1..(j - 1) : s[k] = t[k]

\* sorted(strs) for a list of equal-length score strings
SortedStrings(strs) ==
    LET place(j) == Cardinality({i \in 1..Len(strs) :
                        LexLess(strs[i], strs[j]) \/ (strs[i] = strs[j] /\ i <= j)})
    IN [p \in 1..Len(strs) |-> strs[CHOOSE j \in 1..Len(strs) : place(j) = p]]

\* b_str = "_".join(sorted("".join(str(b[c]) for c in candidates) for b in b_dicts))
HunterBallotString(bs, cands) ==
    SortedStrings([k \in 1..Len(bs) |-> [j \in 1..Len(cands) |-> bs[k][cands[j]]]])

\* a triple check that compares the Score winner with the estimate only
HunterTripleOneCheck(cw_, sw_, star_) == sw_ # star_

\* "if (sw != star) and (star != cw) and (sw != cw):"
HunterTriple(cw_, sw_, star_) == sw_ # star_ /\ star_ # cw_ /\ sw_ # cw_

\* the body of the Hunter loop for one sample: the three "continue" exits, the
\* triple check on the quick estimate, the verification by the full election
\* and the discard when its winner is not the quick estimate
HunterCheck(bs, cands) ==
    LET cw_ == get_condorcet_winner_div3(bs, cands).winner
        s == get_score_winner(bs, cands)
        star_ == get_star_winner_quick(bs, cands, s.totals).winner
        winner_ == StarElection(bs, cands)
    IN IF cw_ = None THEN [outcome |-> "continue", cw |-> cw_, sw |-> None, star |-> None, winner |-> None]
       ELSE IF cw_ = s.winner
       THEN [outcome |-> "continue", cw |-> cw_, sw |-> s.winner, star |-> None, winner |-> None]
       ELSE IF star_ = None
       THEN [outcome |-> "continue", cw |-> cw_, sw |-> s.winner, star |-> star_, winner |-> None]
       ELSE IF ~HunterTriple(cw_, s.winner, star_)
       THEN [outcome |-> "next", cw |-> cw_, sw |-> s.winner, star |-> star_, winner |-> None]
       ELSE IF winner_ # star_
       THEN [outcome |-> "discard", cw |-> cw_, sw |-> s.winner, star |-> star_, winner |-> winner_]
       ELSE [outcome |-> "hit", cw |-> cw_, sw |-> s.winner, star |-> star_, winner |-> winner_]

\* the row the Hunter appends for a verified sample: its first five columns
HunterRow(scenarios_checked, bs, cands, check) ==
    << <<"HUNTER_", scenarios_checked>>, HunterBallotString(bs, cands),
       check.winner, check.cw, "Y: TRIPLE_DIV" >>

\* the rows written when the Hunter phase starts
HunterHeader == << <<>>, <<"---", "HUNTER PHASE START", "Searching for Triple Divergence", "---">> >>

\* msg = f"No triple divergence (CW!=Score!=STAR) found in {SEARCH_TIME_LIMIT}s.":
\* the parts of the text, the interpolated one under the name of its expression
ResultMessage(limit) ==
    << [expr |-> "text", value |-> "No triple divergence (CW!=Score!=STAR) found in "],
       [expr |-> "SEARCH_TIME_LIMIT", value |-> limit],
       [expr |-> "text", value |-> "s."] >>

\* writer.writerow(["RESULT", msg])
ResultMarker(limit) == <<"RESULT", ResultMessage(limit)>>

\* sim_total_divergence3 after Phase 1: NUM_CANDIDATES candidates, profiles of
\* MaxBallots ballots, last_filename None when no chunk was materialized
\* (SAVE_FIRST_CHUNKS = SAVE_LAST_CHUNKS = 0) and the last chunk written
\* otherwise, and a time budget of up to max_limit ticks
HunterConfigured(max_limit) ==
    /\ candidates = CandidateList(NUM_CANDIDATES)
    /\ num_ballots = MaxBallots
    /\ combo = <<>>
    /\ ballots = <<>>
    /\ pc = "exhausted"
    /\ matrix = NoMatrix
    /\ cw = NoCw
    /\ score = NoScore
    /\ star = NoStar
    /\ row = NoRow
    /\ attempt = NoAttempt
    /\ tb = NoTiebreaker
    /\ call = NoCall
    /\ ballot_types = ProductOf(VALID_SCORES, NUM_CANDIDATES)
    /\ chunking = [NoChunking EXCEPT !.script = "sim_total_divergence3"]
    /\ position = 0
    /\ yielded = <<>>
    /\ csv_input = NoInput
    /\ parsed = NoParsed
    /\ \E materialized \in BOOLEAN :
          files = IF materialized
                  THEN [NoFiles EXCEPT !.active_chunk_index = 0, !.last_filename = PartFilename(0)]
                  ELSE NoFiles
    /\ \E limit \in 1..max_limit : hunter = [NoHunter EXCEPT !.SEARCH_TIME_LIMIT = limit]

InitHunter == HunterConfigured(1)

InitHunterClock == HunterConfigured(MaxTime)

\* "if last_filename:" opens the last chunk for appending, writes the spacer
\* and the header row and starts the clock; otherwise the phase is passed over
HunterStart ==
    /\ pc \in {"exhausted", "interrupted"}
    /\ chunking.script = "sim_total_divergence3"
    /\ IF files.last_filename # NoFilename
       THEN /\ hunter' = [hunter EXCEPT !.appended = HunterHeader, !.start_time = 0, !.now = 0,
                                        !.found_in_hunter = FALSE, !.scenarios_checked = 0]
            /\ files' = [files EXCEPT
                   !.console = Append(@, "Phase 1 Complete. Initiating Hunter Protocol..."),
                   !.open_files = @ \union {files.last_filename}]
            /\ pc' = "hunting"
       ELSE /\ pc' = "done"
            /\ files' = [files EXCEPT
                   !.console = Append(@, "Phase 1 Complete. Initiating Hunter Protocol...")]
            /\ UNCHANGED hunter
    /\ UNCHANGED <<profile, results, tb, call, ballot_types, chunking, position, yielded, text>>

\* a budget check that still passes when the whole budget is used up
WithinBudgetInclusive(elapsed, limit) == elapsed <= limit

\* "(time.time() - start_time) < SEARCH_TIME_LIMIT"
WithinBudget(elapsed, limit) == elapsed < limit

\* "while (time.time() - start_time) < SEARCH_TIME_LIMIT:", then
\* "scenarios_checked += 1" when the loop is entered; the clock reads at least
\* one tick more than at the check before, and readings beyond the limit
\* count as the limit
HunterTimeCheck ==
    /\ pc = "hunting"
    /\ \E t \in (IF hunter.scenarios_checked = 0 THEN 0 ELSE hunter.now + 1)
                ..(hunter.start_time + hunter.SEARCH_TIME_LIMIT) :
          IF WithinBudget(t - hunter.start_time, hunter.SEARCH_TIME_LIMIT)
          THEN /\ hunter' = [hunter EXCEPT !.now = t, !.scenarios_checked = @ + 1]
               /\ combo' = <<>>
               /\ ballots' = <<>>
               /\ pc' = "profile"
          ELSE /\ hunter' = [hunter EXCEPT !.now = t]
               /\ pc' = "loop_ended"
               /\ UNCHANGED <<combo, ballots>>
    /\ UNCHANGED <<config, results, tb, call, ballot_types, chunking, position, yielded, text, files>>

\* the rest of the loop body once the sample is drawn: a "continue", the end
\* of the body, or the row of a verified hit and "break"; a sample that is
\* not a hit is read by nothing afterwards and is dropped here
HunterEvaluate ==
    /\ ProfileDrawn
    /\ hunter.scenarios_checked > 0
    /\ LET check == HunterCheck(ballots, candidates)
       IN IF check.outcome = "hit"
          THEN /\ hunter' = [hunter EXCEPT
                      !.appended = Append(@, HunterRow(hunter.scenarios_checked, ballots,
                                                       candidates, check)),
                      !.printed = Append(@, <<"Hunter found anomaly! Appended to ",
                                             files.last_filename>>),
                      !.found_in_hunter = TRUE]
               /\ pc' = "loop_ended"
               /\ UNCHANGED <<combo, ballots>>
          ELSE /\ pc' = "hunting"
               /\ combo' = <<>>
               /\ ballots' = <<>>
               /\ UNCHANGED hunter
    /\ UNCHANGED <<config, results, tb, call, ballot_types, chunking, position, yielded, text, files>>

\* "if not found_in_hunter:" writes the RESULT row and prints the message;
\* leaving the "with open(...)" block closes the file
HunterFinish ==
    /\ pc = "loop_ended"
    /\ IF ~hunter.found_in_hunter
       THEN hunter' = [hunter EXCEPT
                !.appended = Append(@, ResultMarker(hunter.SEARCH_TIME_LIMIT)),
                !.printed = Append(@, <<"Hunter timed out: ", ResultMessage(hunter.SEARCH_TIME_LIMIT)>>)]
       ELSE UNCHANGED hunter
    /\ files' = [files EXCEPT !.open_files = @ \ {files.last_filename}]
    /\ pc' = "done"
    /\ UNCHANGED <<profile, results, tb, call, ballot_types, chunking, position, yielded, text>>

NextHunter == HunterStart \/ HunterTimeCheck \/ DrawBallot \/ HunterEvaluate \/ HunterFinish

SpecHunter == InitHunter /\ [][NextHunter]_vars

\* the Hunter with a budget of several ticks, every step eventually taken
SpecHunterClock == InitHunterClock /\ [][NextHunter]_vars /\ WF_vars(NextHunter)

\* ------------------------------------------------------------------------
\* KeyboardInterrupt during the main loop and during the Hunter
\* ------------------------------------------------------------------------

\* the files when the pass over a profile of a new chunk is cut short after
\* the chunk's file was opened and its header written, before the row
OpenedOnly(fs, script, chunk_index) ==
    [fs EXCEPT
        !.active_chunk_index = chunk_index,
        !.last_filename = IF script = "sim_star_crunch" THEN @ ELSE PartFilename(chunk_index),
        !.parts = [c \in DOMAIN fs.parts \union {chunk_index} |->
                      IF c = chunk_index THEN <<>> ELSE fs.parts[c]],
        !.open_files = OpenChunk(@, fs.active_chunk_index, chunk_index),
        !.layout = [c \in DOMAIN fs.layout \union {chunk_index} |->
                       IF c = chunk_index THEN <<"header">> ELSE fs.layout[c]]]

\* "except KeyboardInterrupt: print(...)"
ExceptKeyboardInterrupt(fs, script, appended) ==
    [fs EXCEPT
        !.console = Append(@, IF script = "sim_star_crunch"
                              THEN "Process interrupted by user."
                              ELSE "Interrupted."),
        !.interrupt = [seen |-> TRUE, caught |-> TRUE, rows_before |-> Len(fs.solved),
                       appended_before |-> Len(appended)]]

\* the interrupt arrives inside the try block of the main loop, between two
\* passes or within the pass that has just opened a chunk; the handler and
\* the finally block run, sim_star_crunch returns, sim_total_divergence3 goes
\* on to Phase 2
InterruptEnumeration ==
    /\ pc = "iterating"
    /\ \E after_open \in BOOLEAN :
          /\ after_open =>
                /\ HasNext
                /\ InSavedBlock(position, chunking)
                /\ ChunkIndex(position, chunking.ROWS_PER_FILE) # files.active_chunk_index
          /\ LET reached == IF after_open
                            THEN OpenedOnly(files, chunking.script,
                                            ChunkIndex(position, chunking.ROWS_PER_FILE))
                            ELSE files
             IN files' = Finally(ExceptKeyboardInterrupt(reached, chunking.script, hunter.appended),
                                 chunking.script)
    /\ pc' = "interrupted"
    /\ UNCHANGED <<profile, results, tb, call, ballot_types, chunking, position, yielded, text, hunter>>

\* the interrupt arrives inside "with open(last_filename, mode="a", ...)":
\* the with statement closes the file, no handler encloses the Hunter and the
\* exception leaves generate_and_analyze
InterruptHunter ==
    /\ pc \in {"hunting", "profile", "loop_ended"}
    /\ files.last_filename \in files.open_files
    /\ files' = [files EXCEPT
           !.open_files = @ \ {files.last_filename},
           !.interrupt = [seen |-> TRUE, caught |-> FALSE, rows_before |-> Len(files.solved),
                          appended_before |-> Len(hunter.appended)]]
    /\ pc' = "crashed"
    /\ UNCHANGED <<profile, results, tb, call, ballot_types, chunking, position, yielded, text, hunter>>

\* the largest number of ballots of an interrupted enumeration
MaxInterrupted == 2

\* an enumeration of a few ballots; the Hunter that follows Phase 1 has used
\* up its budget at the first reading of the clock
InitInterrupt == InitChunks /\ num_ballots <= MaxInterrupted

NextInterrupt ==
    \/ Precalculate \/ SkipProfile \/ MaterializeProfile \/ LoopEnds \/ InterruptEnumeration
    \/ HunterStart \/ HunterTimeCheck \/ HunterFinish \/ InterruptHunter

SpecInterrupt == InitInterrupt /\ [][NextInterrupt]_vars

\* ------------------------------------------------------------------------
\* Ballot text and parse_ballots_from_string
\* ------------------------------------------------------------------------

\* the largest number of ballot rows of a text
MaxLines == 3

\* the weight of a weighted row
MaxWeight == 2

DigitChars == <<"0", "1", "2", "3", "4", "5", "6", "7", "8", "9">>

Digits == Range(DigitChars)

DigitValue(ch) == (CHOOSE d \in 1..Len(DigitChars) : DigitChars[d] = ch) - 1

\* str(n) of a number that is not negative
RECURSIVE Str(_)
Str(n) ==
    IF n < Len(DigitChars) THEN <<DigitChars[n + 1]>>
    ELSE Append(Str(n \div Len(DigitChars)), DigitChars[(n % Len(DigitChars)) + 1])

\* sep.join(parts)
RECURSIVE Join(_, _)
Join(parts, sep) ==
    IF parts = <<>> THEN <<>>
    ELSE IF Len(parts) = 1 THEN parts[1]
    ELSE parts[1] \o sep \o Join(Tail(parts), sep)

Whitespace == {" ", "\t"}

RECURSIVE LStrip(_)
LStrip(s) == IF s # <<>> /\ Head(s) \in Whitespace THEN LStrip(Tail(s)) ELSE s

RECURSIVE RStrip(_)
RStrip(s) == IF s # <<>> /\ s[Len(s)] \in Whitespace THEN RStrip(SubSeq(s, 1, Len(s) - 1)) ELSE s

\* str.strip()
Strip(s) == RStrip(LStrip(s))

StripAll(parts) == [i \in 1..Len(parts) |-> Strip(parts[i])]

NonEmpty(parts) == SelectSeq(parts, LAMBDA p : p # <<>>)

\* the position of the first character of s that is in S, 0 when there is none
FirstIndex(s, S) ==
    LET I == {i \in 1..Len(s) : s[i] \in S}
    IN IF I = {} THEN 0 ELSE CHOOSE i \in I : \A j \in I : i <= j

\* str.split(sep) for a separator of one character
RECURSIVE SplitOn(_, _)
SplitOn(s, sep) ==
    LET i == FirstIndex(s, {sep})
    IN IF i = 0 THEN <<s>>
       ELSE <<SubSeq(s, 1, i - 1)>> \o SplitOn(SubSeq(s, i + 1, Len(s)), sep)

\* str.split(sep, 1)
SplitOnce(s, sep) ==
    LET i == FirstIndex(s, {sep})
    IN IF i = 0 THEN <<s>> ELSE <<SubSeq(s, 1, i - 1), SubSeq(s, i + 1, Len(s))>>

\* re.split(r"[,\t]+", s): a run of separators splits once
RECURSIVE ReSplit(_)
ReSplit(s) ==
    LET i == FirstIndex(s, {",", "\t"})
        rest == SubSeq(s, i + 1, Len(s))
        j == FirstIndex(rest, {rest[k] : k \in 1..Len(rest)} \ {",", "\t"})
    IN IF i = 0 THEN <<s>>
       ELSE <<SubSeq(s, 1, i - 1)>>
            \o ReSplit(IF j = 0 THEN <<>> ELSE SubSeq(rest, j, Len(rest)))

\* str.isdigit()
IsDigit(s) == s # <<>> /\ \A i \in 1..Len(s) : s[i] \in Digits

\* whether int(p) returns: digits, single underscores between them allowed,
\* surrounding whitespace ignored; otherwise it raises ValueError
IsInt(p) ==
    LET t == Strip(p)
    IN /\ t # <<>>
       /\ t[1] \in Digits
       /\ t[Len(t)] \in Digits
       /\ \A i \in 1..Len(t) : t[i] \in Digits \union {"_"}
       /\ \A i \in 1..(Len(t) - 1) : ~(t[i] = "_" /\ t[i + 1] = "_")

\* the value of the digits among the first k characters of s
RECURSIVE DecimalOf(_, _)
DecimalOf(s, k) ==
    IF k = 0 THEN 0
    ELSE IF s[k] \in Digits THEN Len(DigitChars) * DecimalOf(s, k - 1) + DigitValue(s[k])
    ELSE DecimalOf(s, k - 1)

\* int(p) when it returns
IntOf(p) == DecimalOf(p, Len(p))

\* the candidate a header names
NameOf(chars) == CHOOSE c \in {Chr65(i) : i \in 0..4} : <<c>> = chars

\* {h: s for h, s in zip(headers, scores)}: a later header of the same name
\* replaces an earlier one
MakeBallot(headers, scores) ==
    LET n == IF Len(headers) < Len(scores) THEN Len(headers) ELSE Len(scores)
    IN [c \in {NameOf(headers[i]) : i \in 1..n} |->
           scores[CHOOSE i \in 1..n : /\ NameOf(headers[i]) = c
                                      /\ \A j \in 1..n : NameOf(headers[j]) = c => j <= i]]

\* for _ in range(weight): ballots.append(ballot)
Repeat(ballot, weight) == [i \in 1..weight |-> ballot]

\* headers = [name.strip() for name in re.split(r"[,\t]+", lines[0]) if name.strip()]
ParseHeaders(line) == NonEmpty(StripAll(ReSplit(line)))

StartsWith(s, prefix) == Len(s) >= Len(prefix) /\ SubSeq(s, 1, Len(prefix)) = prefix

\* add_extra_expl.parse_ballots_from_string, the first loop: the lines
\* without comments, the empty ones left out
CleanLinesExpl(lines) ==
    NonEmpty([i \in 1..Len(lines) |->
        LET line == Strip(lines[i])
        IN IF StartsWith(line, <<"#", ",">>) THEN line ELSE Strip(SplitOn(line, "#")[1])])

\* the "Weight:Score" prefix of a row: <<weight, parts>> with the prefix taken
\* off when int(w_str) returns, <<1, parts>> otherwise
WeightOf(parts) ==
    LET pair == SplitOnce(parts[1], ":")
    IN IF ":" \in Range(parts[1]) /\ IsInt(pair[1])
       THEN <<IntOf(pair[1]), [parts EXCEPT ![1] = pair[2]]>>
       ELSE <<1, parts>>

\* add_extra_expl.parse_ballots_from_string, the body of the loop over the
\* rows: the standard CSV parse, then the compact underscore format with its
\* plausibility check
ParseRowExpl(line, headers, line_num) ==
    LET weighted == WeightOf(ReSplit(line))
        weight == weighted[1]
        clean_parts == NonEmpty(StripAll(weighted[2]))
        segments == NonEmpty(StripAll(SplitOn(line, "_")))
        fits == SelectSeq(segments, LAMBDA seg : IsDigit(seg) /\ Len(seg) = Len(headers))
        misfits == SelectSeq(segments, LAMBDA seg : IsDigit(seg) /\ Len(seg) # Len(headers))
    IN IF /\ Len(clean_parts) = Len(headers)
          /\ \A i \in 1..Len(clean_parts) : IsInt(clean_parts[i])
       THEN [ballots |-> Repeat(MakeBallot(headers, [i \in 1..Len(clean_parts) |->
                                                        IntOf(clean_parts[i])]), weight),
             warnings |-> <<>>]
       ELSE [ballots |-> [k \in 1..Len(fits) |->
                            MakeBallot(headers, [i \in 1..Len(fits[k]) |-> DigitValue(fits[k][i])])],
             warnings |-> [k \in 1..Len(misfits) |->
                            [line_num |-> line_num, seg |-> misfits[k],
                             digits |-> Len(misfits[k]), expected |-> Len(headers)]]]

\* the rows lines[2] to lines[k]
RECURSIVE ParseRowsExpl(_, _, _)
ParseRowsExpl(lines, headers, k) ==
    IF k <= 1 THEN [ballots |-> <<>>, warnings |-> <<>>]
    ELSE LET before == ParseRowsExpl(lines, headers, k - 1)
             this == ParseRowExpl(lines[k], headers, k)
         IN [ballots |-> before.ballots \o this.ballots,
             warnings |-> before.warnings \o this.warnings]

\* add_extra_expl.parse_ballots_from_string(ballot_string)
parse_ballots_from_string_expl(ballot_string) ==
    LET lines == CleanLinesExpl(ballot_string)
        parsed_headers == ParseHeaders(lines[1])
        headers == IF parsed_headers # <<>> /\ parsed_headers[1] = <<"#">>
                   THEN Tail(parsed_headers) ELSE parsed_headers
        rows == ParseRowsExpl(lines, headers, Len(lines))
    IN IF lines = <<>>
       THEN [script |-> "add_extra_expl", headers |-> <<>>, ballots |-> <<>>, warnings |-> <<>>]
       ELSE [script |-> "add_extra_expl", headers |-> headers, ballots |-> rows.ballots,
             warnings |-> rows.warnings]

\* sim_divergence.parse_ballots_from_string, the list of lines: the lines that
\* are not blank, each without its comment
CleanLinesDivergence(lines) ==
    LET kept == SelectSeq(lines, LAMBDA line : Strip(line) # <<>>)
    IN [i \in 1..Len(kept) |-> Strip(SplitOn(kept[i], "#")[1])]

\* sim_divergence.parse_ballots_from_string, the body of the loop over the
\* rows: "continue" on a ValueError and on a length mismatch
ParseRowDivergence(line, headers) ==
    LET weighted == WeightOf(ReSplit(line))
        weight == weighted[1]
        kept == NonEmpty(StripAll(weighted[2]))
    IN IF \E i \in 1..Len(kept) : ~IsInt(kept[i]) THEN <<>>
       ELSE IF Len(kept) # Len(headers) THEN <<>>
       ELSE Repeat(MakeBallot(headers, [i \in 1..Len(kept) |-> IntOf(kept[i])]), weight)

RECURSIVE ParseRowsDivergence(_, _, _)
ParseRowsDivergence(lines, headers, k) ==
    IF k <= 1 THEN <<>>
    ELSE ParseRowsDivergence(lines, headers, k - 1) \o ParseRowDivergence(lines[k], headers)

\* sim_divergence.parse_ballots_from_string(ballot_string); it prints nothing
parse_ballots_from_string_divergence(ballot_string) ==
    LET lines == CleanLinesDivergence(ballot_string)
        headers == ParseHeaders(lines[1])
    IN IF lines = <<>>
       THEN [script |-> "sim_divergence", headers |-> <<>>, ballots |-> <<>>, warnings |-> <<>>]
       ELSE [script |-> "sim_divergence", headers |-> headers,
             ballots |-> ParseRowsDivergence(lines, headers, Len(lines)), warnings |-> <<>>]

\* the scores a row of text is written from
TextScores == {0, MaxScore}

Fields(k) == [1..k -> TextScores]

\* a row of k times the largest score
Rep(k) == [i \in 1..k |-> MaxScore]

\* "5,0"
CsvLine(scores, sep) == Join([i \in 1..Len(scores) |-> Str(scores[i])], sep)

\* "50"
DigitRun(scores) == Join([i \in 1..Len(scores) |-> Str(scores[i])], <<>>)

\* a row of the text: the form it is written in, its weight, its runs of
\* scores, and the line of characters
Row(form, weight, runs) ==
    [form |-> form, weight |-> weight, runs |-> runs,
     line |-> CASE form = "csv" -> CsvLine(runs[1], <<",">>)
                [] form = "spaced" -> CsvLine(runs[1], <<",", " ">>)
                [] form = "weighted" -> Str(weight) \o <<":">> \o CsvLine(runs[1], <<",">>)
                [] form = "compact" -> Join([i \in 1..Len(runs) |-> DigitRun(runs[i])], <<"_">>)
                [] form = "blank" -> <<>>]

\* the header row of n candidates
HeaderRow(cands) ==
    [form |-> "header", weight |-> 1, runs |-> <<>>,
     line |-> Join([i \in 1..Len(cands) |-> <<cands[i]>>], <<",">>)]

\* the rows of each form the parser of a script reads, with the right and
\* with a wrong number of scores
RowMenu(script, n) ==
    {Row("csv", 1, <<f>>) : f \in Fields(n)}
    \union {Row("csv", 1, <<Rep(k)>>) : k \in {n - 1, n + 1}}
    \union {Row("spaced", 1, <<Rep(n)>>), Row("blank", 1, <<>>)}
    \union {Row("weighted", MaxWeight, <<Rep(k)>>) : k \in {n, n + 1}}
    \union (IF script = "add_extra_expl"
            THEN {Row("compact", 1, <<Rep(k)>>) : k \in {n, n + 1}}
                 \union {Row("compact", 1, <<Rep(n), Rep(k)>>) : k \in {n, n + 1}}
            ELSE {})

ParseScripts == {"add_extra_expl", "sim_divergence"}

Lines(rows) == [i \in 1..Len(rows) |-> rows[i].line]

\* a header of two or more candidates, handed to the parser of a script
InitParse ==
    /\ \E n \in 2..NUM_CANDIDATES : candidates = CandidateList(n)
    /\ \E script \in ParseScripts : parsed = [NoParsed EXCEPT !.script = script]
    /\ csv_input = <<HeaderRow(candidates)>>
    /\ num_ballots = 0
    /\ combo = <<>>
    /\ ballots = <<>>
    /\ pc = "text"
    /\ matrix = NoMatrix
    /\ cw = NoCw
    /\ score = NoScore
    /\ star = NoStar
    /\ row = NoRow
    /\ attempt = NoAttempt
    /\ tb = NoTiebreaker
    /\ call = NoCall
    /\ ballot_types = NoMenu
    /\ chunking = NoChunking
    /\ position = 0
    /\ yielded = <<>>
    /\ files = NoFiles
    /\ hunter = NoHunter

\* one more row of the ballot text
WriteLine ==
    /\ pc = "text"
    /\ Len(csv_input) <= MaxLines
    /\ \E r \in RowMenu(parsed.script, Len(candidates)) : csv_input' = Append(csv_input, r)
    /\ UNCHANGED <<profile, pc, results, tb, call, ballot_types, chunking, position, yielded,
                   files, hunter, parsed>>

\* add_extra_expl.parse_ballots_from_string(csv_input)
ParseExpl ==
    /\ pc = "text"
    /\ parsed.script = "add_extra_expl"
    /\ parsed' = parse_ballots_from_string_expl(Lines(csv_input))
    /\ ballots' = parsed'.ballots
    /\ pc' = "parsed"
    /\ UNCHANGED <<candidates, num_ballots, combo, results, tb, call, ballot_types, chunking,
                   position, yielded, files, hunter, csv_input>>

\* sim_divergence.parse_ballots_from_string(csv_string)
ParseDivergence ==
    /\ pc = "text"
    /\ parsed.script = "sim_divergence"
    /\ parsed' = parse_ballots_from_string_divergence(Lines(csv_input))
    /\ ballots' = parsed'.ballots
    /\ pc' = "parsed"
    /\ UNCHANGED <<candidates, num_ballots, combo, results, tb, call, ballot_types, chunking,
                   position, yielded, files, hunter, csv_input>>

NextParse == WriteLine \/ ParseExpl \/ ParseDivergence

SpecParse == InitParse /\ [][NextParse]_vars

\* ------------------------------------------------------------------------
\* add_extra_expl.run_election
\* ------------------------------------------------------------------------

\* get_top_two_finalists(ballots): the first two of the candidates ranked by
\* total, the sort being stable over the order of the ballot keys
get_top_two_finalists(bs, cands) ==
    LET ranked == SortedItems(cands, Totals(bs, cands), Len(cands))
    IN [i \in 1..(IF Len(ranked) < 2 THEN Len(ranked) ELSE 2) |-> ranked[i][1]]

\* print_matrix, "[Condorcet Winner]": the loop over c2 from position j on;
\* "if for_c1 <= against_c1: is_winner = False"
RECURSIVE IsWinnerLoop(_, _, _, _)
IsWinnerLoop(m, cands, c1, j) ==
    IF j > Len(cands) THEN TRUE
    ELSE IF cands[j] = c1 THEN IsWinnerLoop(m, cands, c1, j + 1)
    ELSE IF m[c1][cands[j]][1] <= m[c1][cands[j]][2] THEN FALSE
    ELSE IsWinnerLoop(m, cands, c1, j + 1)

\* print_matrix, the loop over c1 from position i on: the first winner, or None
RECURSIVE PrintMatrixLoop(_, _, _)
PrintMatrixLoop(m, cands, i) ==
    IF i > Len(cands) THEN None
    ELSE IF IsWinnerLoop(m, cands, cands[i], 1) THEN cands[i]
    ELSE PrintMatrixLoop(m, cands, i + 1)

\* the Condorcet winner print_matrix(candidates, matrix, finalists) prints
print_matrix(cands, m) == PrintMatrixLoop(m, cands, 1)

\* the scoring round of the election with a sequence tiebreaker: a tie for
\* the top rank and a still tied 2nd/3rd place go to the tiebreaker, a
\* 2nd/3rd score tie first to their head-to-head
ElectionFinalists(bs, cands, order_map) ==
    LET totals == Totals(bs, cands)
        top == MaxOf({totals[c] : c \in Range(cands)})
        first == WithTotal(cands, totals, top)
    IN IF Len(first) >= 2
       THEN LET two == SequenceTiebreakerCall(order_map, first, 2)
            IN [finalist_a |-> two[1], finalist_b |-> two[2]]
       ELSE LET next == MaxOf({totals[c] : c \in Range(cands) \ {first[1]}})
                second == SelectSeq(WithTotal(cands, totals, next), LAMBDA c : c # first[1])
                for_1 == CountPrefer(bs, second[1], second[2])
                for_2 == CountPrefer(bs, second[2], second[1])
            IN [finalist_a |-> first[1],
                finalist_b |->
                    IF Len(second) = 1 THEN second[1]
                    ELSE IF for_1 > for_2 THEN second[1]
                    ELSE IF for_2 > for_1 THEN second[2]
                    ELSE SequenceTiebreakerCall(order_map, second, 1)[1]]

\* an election whose exact runoff tie has no winner
ElectionRunoffTieNoWinner(bs, cands, order_map) ==
    IF Len(cands) < 2 THEN cands[1]
    ELSE LET f == ElectionFinalists(bs, cands, order_map)
             v1 == CountPrefer(bs, f.finalist_a, f.finalist_b)
             v2 == CountPrefer(bs, f.finalist_b, f.finalist_a)
         IN IF v1 > v2 THEN f.finalist_a
            ELSE IF v2 > v1 THEN f.finalist_b
            ELSE None

\* starvote.election(method=starvote.star, ballots, seats=1, tiebreaker): the
\* sole candidate, or the finalist with strictly more supporting ballots, an
\* exact runoff tie going to the tiebreaker
Election(bs, cands, order_map) ==
    IF Len(cands) < 2 THEN cands[1]
    ELSE LET f == ElectionFinalists(bs, cands, order_map)
             v1 == CountPrefer(bs, f.finalist_a, f.finalist_b)
             v2 == CountPrefer(bs, f.finalist_b, f.finalist_a)
         IN IF v1 > v2 THEN f.finalist_a
            ELSE IF v2 > v1 THEN f.finalist_b
            ELSE SequenceTiebreakerCall(order_map, <<f.finalist_a, f.finalist_b>>, 1)[1]

\* the ballots of a profile written as standard CSV under their header
CsvText(cands, bs) ==
    <<HeaderRow(cands)>> \o [i \in 1..Len(bs) |-> Row("csv", 1, <<ScoreRow(cands, bs[i])>>)]

\* profiles of fewer candidates than the simulations use
InitElection == Init /\ Len(candidates) < NUM_CANDIDATES

\* run_election(csv_input, mode, manual_list, seed) with a sequence mode:
\* parse, "if not ballots: return", the matrix, the finalists, the
\* tiebreaker, the election, the Condorcet winner print_matrix prints
RunElection ==
    /\ ProfileDrawn
    /\ \E p \in {parse_ballots_from_string_expl(Lines(CsvText(candidates, ballots)))} :
       LET cands == [i \in 1..Len(p.headers) |-> NameOf(p.headers[i])]
           m == calculate_preference_matrix(cands, p.ballots)
           finalists == get_top_two_finalists(p.ballots, cands)
       IN /\ csv_input' = CsvText(candidates, ballots)
          /\ parsed' = p
          /\ IF p.ballots = <<>>
             THEN /\ pc' = "no_ballots"
                  /\ UNCHANGED <<results, tb>>
             ELSE /\ matrix' = m
                  /\ score' = [winner |-> finalists[1], totals |-> Totals(p.ballots, cands)]
                  /\ cw' = [NoCw EXCEPT !.winner = print_matrix(cands, m)]
                  /\ \E mode \in Modes, manual_list \in ListsOf(Range(candidates)) :
                        LET preferred_order == PreferredOrder(mode, manual_list, cands)
                            order_map == EnumerateMap(preferred_order)
                            f == ElectionFinalists(p.ballots, cands, order_map)
                        IN /\ tb' = [class |-> "SequenceTiebreaker", mode |-> mode,
                                     manual_order |-> manual_list,
                                     preferred_order |-> preferred_order,
                                     order_map |-> order_map]
                           /\ star' = [winner |-> Election(p.ballots, cands, order_map),
                                       finalist_a |-> IF Len(cands) < 2 THEN None
                                                      ELSE f.finalist_a,
                                       finalist_b |-> IF Len(cands) < 2 THEN None
                                                      ELSE f.finalist_b,
                                       cand_3 |-> None]
                  /\ pc' = "elected"
                  /\ UNCHANGED <<row, attempt>>
    /\ UNCHANGED <<profile, call, ballot_types, chunking, position, yielded, files, hunter>>

NextElection == DrawBallot \/ RunElection

SpecElection == InitElection /\ [][NextElection]_vars

\* ------------------------------------------------------------------------
\* The Condorcet check of add_extra_expl.py next to the three
\* get_condorcet_winner functions, on the same profile
\* ------------------------------------------------------------------------

\* run_election up to print_matrix: without ballots it returns before the
\* matrix is built, and print_matrix returns before its Condorcet check when
\* there are no candidates or no matrix ("if not candidates or not matrix")
CondorcetMatrix ==
    /\ ProfileDrawn
    /\ matrix' = calculate_preference_matrix(candidates, ballots)
    /\ cw' = [NoCw EXCEPT !.winner =
                 IF ballots = <<>> \/ candidates = <<>> THEN None
                 ELSE print_matrix(candidates, matrix')]
    /\ pc' = "cw_matrix"
    /\ UNCHANGED <<profile, score, star, row, attempt, tb, call, run>>

NextCondorcetFour ==
    DrawBallot \/ CondorcetCrunch \/ CondorcetDiv3 \/ CondorcetRunoff \/ CondorcetMatrix

SpecCondorcetFour == Init /\ [][NextCondorcetFour]_vars

\* ------------------------------------------------------------------------
\* Properties
\* ------------------------------------------------------------------------

\* the number of ballots of the profile that score x strictly above y
Prefer(x, y) == Cardinality({i \in 1..Len(ballots) : ballots[i][x] > ballots[i][y]})

\* x is preferred to every other candidate by strictly more ballots than prefer
\* the other candidate to x
BeatsAll(x) == \A y \in Range(candidates) \ {x} : Prefer(x, y) > Prefer(y, x)

\* the total score of c over the first k ballots of the profile
RECURSIVE TotalUpTo(_, _)
TotalUpTo(c, k) == IF k = 0 THEN 0 ELSE TotalUpTo(c, k - 1) + ballots[k][c]

TotalScore(c) == TotalUpTo(c, Len(ballots))

\* the rank of c by total score, ties in the order of the candidates list
RankOf(c) ==
    1 + Cardinality({d \in Range(candidates) :
            \/ TotalScore(d) > TotalScore(c)
            \/ TotalScore(d) = TotalScore(c) /\ IndexOf(candidates, d) < IndexOf(candidates, c)})

Ranked(k) == CHOOSE c \in Range(candidates) : RankOf(c) = k

\* the orders in which the candidates list can be iterated
Orders == {[i \in 1..Len(candidates) |-> candidates[p[i]]] :
                p \in Permutations(1..Len(candidates))}

\* C1: for every ordered pair of distinct candidates the pairwise record sums
\* to the number of ballots, and for(X,Y) equals against(Y,X)
C1_PairwiseRecord ==
    (pc = "matrix_text" \/ (pc = "matrix" /\ ballots # <<>>)) =>
        \A x, y \in Range(candidates) :
            x # y =>
                /\ matrix[x][y][1] + matrix[x][y][2] + matrix[x][y][3] = Len(ballots)
                /\ matrix[x][y][1] = matrix[y][x][2]

C1_Witness ==
    /\ pc = "matrix"
    /\ ballots # <<>>
    /\ \E x, y \in Range(candidates) :
          x # y /\ matrix[x][y][1] > 0 /\ matrix[x][y][2] > 0 /\ matrix[x][y][3] > 0

\* C2: get_condorcet_winner returns X exactly when X strictly beats every
\* other candidate, None exactly when no candidate does, and a returned
\* candidate was compared against all of its opponents
C2_CondorcetWinner ==
    pc = "cw_crunch" =>
        /\ \A x \in Range(candidates) : cw.winner = x <=> BeatsAll(x)
        /\ cw.winner = None <=> ~ \E x \in Range(candidates) : BeatsAll(x)
        /\ cw.winner # None => cw.checked = Range(candidates) \ {cw.winner}

C2_Witness ==
    /\ pc = "cw_crunch"
    /\ Len(candidates) = 3
    /\ cw.winner = candidates[3]
    /\ \E x, y \in Range(candidates) : x # y /\ Prefer(x, y) = Prefer(y, x) /\ Prefer(x, y) > 0

\* C3: at most one candidate strictly beats every other, and the winner
\* returned does not depend on the order of the candidates list
C3_OrderIndependent ==
    /\ pc \in {"cw_runoff", "cw_div3"} =>
            Cardinality({x \in Range(candidates) : BeatsAll(x)}) <= 1
    /\ pc = "cw_runoff" =>
            \A o \in Orders : get_condorcet_winner_runoff(ballots, o).winner = cw.winner
    /\ pc = "cw_div3" =>
            \A o \in Orders : get_condorcet_winner_div3(ballots, o).winner = cw.winner

C3_Witness ==
    /\ pc = "cw_runoff"
    /\ Len(candidates) = 3
    /\ cw.winner = candidates[2]
    /\ Prefer(candidates[1], candidates[3]) = Prefer(candidates[3], candidates[1])

\* C4: get_score_winner returns a candidate with the maximum total score, the
\* first of them in the candidate enumeration order
C4_ScoreWinner ==
    pc \in {"score_div3", "score_runoff"} =>
        /\ score.winner \in Range(candidates)
        /\ \A c \in Range(candidates) :
              /\ TotalScore(c) <= TotalScore(score.winner)
              /\ TotalScore(c) = TotalScore(score.winner) =>
                    IndexOf(candidates, score.winner) <= IndexOf(candidates, c)

C4_Witness ==
    /\ pc = "score_div3"
    /\ Len(candidates) = 3
    /\ score.winner = candidates[2]
    /\ TotalScore(candidates[3]) = TotalScore(candidates[2])
    /\ TotalScore(candidates[1]) > 0

\* C5: finalist A is the top-ranked candidate by total score; when the 2nd-
\* and 3rd-ranked candidates have equal totals, finalist B is the one of the
\* two preferred by more ballots head-to-head, and with equal head-to-head
\* counts the one the SilentSequenceTiebreaker chooses
C5_ScoringRound ==
    (pc = "star_quick" /\ Len(candidates) >= 2) =>
        /\ star.finalist_a = Ranked(1)
        /\ (Len(candidates) >= 3 /\ TotalScore(Ranked(2)) = TotalScore(Ranked(3))) =>
              /\ Prefer(Ranked(2), Ranked(3)) > Prefer(Ranked(3), Ranked(2)) =>
                    star.finalist_b = Ranked(2)
              /\ Prefer(Ranked(3), Ranked(2)) > Prefer(Ranked(2), Ranked(3)) =>
                    star.finalist_b = Ranked(3)
              /\ Prefer(Ranked(3), Ranked(2)) = Prefer(Ranked(2), Ranked(3)) =>
                    star.finalist_b = SilentSequenceTiebreaker(<<Ranked(2), Ranked(3)>>, 1)[1]

C5_Witness ==
    /\ pc = "star_quick"
    /\ Len(candidates) = 3
    /\ TotalScore(Ranked(2)) = TotalScore(Ranked(3))
    /\ TotalScore(Ranked(1)) > TotalScore(Ranked(2))
    /\ Prefer(Ranked(3), Ranked(2)) > Prefer(Ranked(2), Ranked(3))
    /\ star.finalist_b = Ranked(3)

\* C6: in the runoff the finalist preferred by strictly more ballots wins, and
\* with equal support the result is None, never a candidate
C6_Runoff ==
    (pc \in {"star_quick", "star_runoff"} /\ Len(candidates) >= 2) =>
        LET a == star.finalist_a
            b == star.finalist_b
        IN /\ Prefer(a, b) > Prefer(b, a) => star.winner = a
           /\ Prefer(b, a) > Prefer(a, b) => star.winner = b
           /\ Prefer(a, b) = Prefer(b, a) => star.winner = None

C6_Witness ==
    /\ pc = "star_quick"
    /\ Len(candidates) = 3
    /\ star.winner = None
    /\ Prefer(star.finalist_a, star.finalist_b) > 0

\* C7: no resolver returns a winner candidate for a profile with zero ballots
C7_EmptyProfileRejected ==
    (ballots = <<>> /\ pc \in {"score_div3", "score_runoff"}) =>
        score.winner \notin Range(candidates)

\* C8: a tiebreak strategy returns exactly `desired` candidates of the tie,
\* none of them twice, and the same list when called again with the same tie
\* and count
C8_TiebreakResult ==
    pc = "called" =>
        /\ Len(call.winners) = call.desired
        /\ Range(call.winners) \subseteq Range(call.tie)
        /\ \A i, j \in 1..Len(call.winners) : call.winners[i] = call.winners[j] => i = j
        /\ call.calls >= 2 => call.winners = call.prev

C8_Witness ==
    /\ pc = "called"
    /\ tb.class = "SequenceTiebreaker"
    /\ call.calls = 2
    /\ Len(call.tie) = 3
    /\ call.desired = 2
    /\ call.winners # SubSeq(call.tie, 1, 2)

\* the priority list the claim names for the mode of the tiebreaker
ClaimedPriority ==
    IF tb.mode \in {"first", "left"} THEN candidates
    ELSE IF tb.mode \in {"last", "right"} THEN Reversed(candidates)
    ELSE tb.manual_order

\* the same, mode manual without a manual order using the reversed order
FallbackPriority ==
    IF tb.mode = "manual" /\ tb.manual_order = <<>> THEN Reversed(candidates)
    ELSE ClaimedPriority

\* the winners of the call are the first ones of the tie in the order of the
\* priority list, candidates not in the list after every listed one
SelectedBy(priority) ==
    LET listed(c) == c \in Range(priority)
        before(c, d) == listed(c) /\ (listed(d) => IndexOf(priority, c) < IndexOf(priority, d))
        w == call.winners
    IN /\ \A i, j \in 1..Len(w) : (i < j /\ listed(w[j])) => before(w[i], w[j])
       /\ \A c \in Range(call.tie) \ Range(w) : \A i \in 1..Len(w) :
              listed(c) => before(w[i], c)

\* C9 as stated: the priority list is the candidate order for first/left, the
\* reversed order for last/right and the manual order for manual, and unlisted
\* tied candidates come after every listed one
C9_PriorityAsStated ==
    tb.class = "SequenceTiebreaker" =>
        /\ pc \in {"initialized", "called"} => tb.preferred_order = ClaimedPriority
        /\ pc = "called" => SelectedBy(ClaimedPriority)

\* C9 amended: as stated, except that mode manual with an empty manual order
\* uses the reversed candidate order
C9_PriorityWithFallback ==
    tb.class = "SequenceTiebreaker" =>
        /\ pc \in {"initialized", "called"} => tb.preferred_order = FallbackPriority
        /\ pc = "called" => SelectedBy(FallbackPriority)

C9_Witness ==
    /\ pc = "called"
    /\ tb.class = "SequenceTiebreaker"
    /\ tb.mode = "manual"
    /\ Len(tb.manual_order) = 1
    /\ Len(call.tie) = 3
    /\ call.desired = 2
    /\ call.winners[1] = call.tie[3]
    /\ call.winners[1] \in Range(tb.manual_order)
    /\ call.winners[2] \notin Range(tb.manual_order)

\* the candidates that strictly beat every other candidate pairwise
CondorcetWinners == {x \in Range(candidates) : BeatsAll(x)}

\* the Condorcet winner x, the Score winner and the STAR winner w are three
\* pairwise different candidates
ThreeDifferent(x, w) ==
    /\ w \in Range(candidates)
    /\ x # Ranked(1)
    /\ Ranked(1) # w
    /\ x # w

\* C10: a profile is flagged as triple divergence exactly when a Condorcet
\* winner exists and the Condorcet, Score and STAR winners are pairwise
\* different candidates
C10_TripleDivergence ==
    /\ pc = "row" =>
          (row.div_flag = <<"Y: TRIPLE_DIV">>
              <=> \E x \in CondorcetWinners : ThreeDifferent(x, row.winner))
    /\ pc = "attempt" =>
          (attempt.found
              <=> \E x \in CondorcetWinners :
                     /\ x # Ranked(1)
                     /\ ThreeDifferent(x, get_star_winner(ballots, candidates,
                                             [c \in Range(candidates) |-> TotalScore(c)]).winner))

C10_Witness ==
    /\ pc = "row"
    /\ row.div_flag = <<"Y: TRIPLE_DIV">>
    /\ row.cw # row.sw
    /\ row.sw # row.winner
    /\ row.cw # row.winner

\* C11: in a sim_star_crunch row the CW column is "Cycle" and Div? is "N" when
\* no Condorcet winner exists; otherwise the CW column names the Condorcet
\* winner and Div? is "Y" exactly when it differs from the STAR winner
C11_CrunchRow ==
    pc = "crunch_row" =>
        /\ CondorcetWinners = {} => row.cw_str = "Cycle" /\ row.div_flag = <<"N">>
        /\ \A x \in CondorcetWinners :
              /\ row.cw_str = x
              /\ row.div_flag \in {<<"Y">>, <<"N">>}
              /\ row.div_flag = <<"Y">> <=> x # row.winner

C11_Witness ==
    /\ pc = "crunch_row"
    /\ row.cw_str \in Range(candidates)
    /\ row.div_flag = <<"Y">>
    /\ row.winner # row.cw_str

\* the three winners of the profile are equal, or without a Condorcet winner
\* the Score and STAR winners are
WinnersAgree(w) ==
    /\ Ranked(1) = w
    /\ \A x \in CondorcetWinners : x = w

\* C12 as stated: the flag of an evaluated profile is "N" exactly when the
\* Condorcet, Score and STAR winners are all equal, or, with a Condorcet
\* cycle, the Score and STAR winners are equal
C12_AgreeAsStated ==
    pc \in {"row", "crunch_row"} =>
        (row.div_flag = <<"N">> <=> WinnersAgree(row.winner))

\* C12 amended: in sim_star_crunch the flag is "N" exactly when Condorcet is
\* a cycle or its winner is the STAR winner; in sim_total_divergence3 exactly
\* when the STAR winner has the maximum total score and the profile is not a
\* triple divergence
C12_AgreeByScript ==
    /\ pc = "crunch_row" =>
          (row.div_flag = <<"N">> <=> \A x \in CondorcetWinners : x = row.winner)
    /\ pc = "row" =>
          (row.div_flag = <<"N">> <=>
              /\ \A c \in Range(candidates) : TotalScore(c) <= TotalScore(row.winner)
              /\ ~ \E x \in CondorcetWinners : ThreeDifferent(x, row.winner))

C12_Witness ==
    /\ pc = "row"
    /\ row.div_flag = <<"N">>
    /\ row.cw \in Range(candidates)
    /\ row.cw # row.winner
    /\ row.sw = row.winner

\* the binomial coefficient by Pascal's rule
RECURSIVE Choose(_, _)
Choose(n, k) ==
    IF k = 0 THEN 1
    ELSE IF n = 0 THEN 0
    ELSE Choose(n - 1, k - 1) + Choose(n - 1, k)

\* how often each of the n ballot types occurs in a tuple of menu positions
CountsOf(t, n) == [p \in 1..n |-> Cardinality({j \in 1..Len(t) : t[j] = p})]

\* all multisets of k ballot types out of n, by their counts
AllMultisets(n, k) ==
    {CountsOf(t, n) : t \in {u \in [1..k -> 1..n] : \A j \in 1..(k - 1) : u[j] <= u[j + 1]}}

\* the list has no entry twice
Distinct(seq) == \A a, b \in 1..Len(seq) : seq[a] = seq[b] => a = b

\* the largest score of a menu of ballot types
LargestScore(types) == MaxOf({types[a][j] : a \in 1..Len(types), j \in 1..Len(types[1])})

\* C13: the menu has M^C distinct ballot types, and a full enumeration yields
\* choose(M^C + K - 1, K) profiles, the value of total_combinations, every
\* multiset of K ballot types exactly once
C13_ProfileCount ==
    LET n == Len(ballot_types)
    IN /\ pc \in {"iterating", "exhausted"} =>
             /\ n = Power(Len(VALID_SCORES), Len(candidates))
             /\ Distinct(ballot_types)
       /\ pc = "menu_saved" =>
             /\ n = Power(LargestScore(ballot_types) + 1, Len(candidates))
             /\ Distinct(ballot_types)
             /\ Range(ballot_types) = [1..Len(candidates) -> 0..LargestScore(ballot_types)]
       /\ pc = "exhausted" =>
             /\ Len(yielded) = Choose(n + num_ballots - 1, num_ballots)
             /\ chunking.total_combinations = Len(yielded)
             /\ Cardinality({CountsOf(yielded[a], n) : a \in 1..Len(yielded)}) = Len(yielded)
             /\ {CountsOf(yielded[a], n) : a \in 1..Len(yielded)} = AllMultisets(n, num_ballots)

C13_Witness ==
    /\ pc = "exhausted"
    /\ Len(ballot_types) = 9
    /\ num_ballots = 4
    /\ Len(yielded) = 495

\* the number of non-decreasing tuples over n menu positions that come before
\* t in lexicographic order
RECURSIVE TuplesFrom(_, _, _, _)
TuplesFrom(lo, hi, n, r) ==
    IF lo > hi THEN 0
    ELSE Choose((n - lo + 1) + r - 1, r) + TuplesFrom(lo + 1, hi, n, r)

RECURSIVE RankFrom(_, _, _, _)
RankFrom(t, n, j, low) ==
    IF j > Len(t) THEN 0
    ELSE TuplesFrom(low, t[j] - 1, n, Len(t) - j) + RankFrom(t, n, j + 1, t[j])

Rank(t, n) == RankFrom(t, n, 1, 1)

\* C14: the ballot types are in sorted order, every profile is a
\* non-decreasing tuple of ballot-type positions that comes after the profile
\* before it in lexicographic order, and its sequence position is the number
\* of such tuples before it, which the configuration alone determines
C14_CanonicalOrder ==
    (pc = "iterating" /\ position > 0) =>
        LET n == Len(ballot_types)
        IN /\ \A a \in 1..(n - 1) : LexLess(ballot_types[a], ballot_types[a + 1])
           /\ Len(combo) = num_ballots
           /\ \A j \in 1..Len(combo) : combo[j] \in 1..n
           /\ \A j \in 1..(Len(combo) - 1) : combo[j] <= combo[j + 1]
           /\ yielded[position] = combo
           /\ position > 1 => LexLess(yielded[position - 1], combo)
           /\ Rank(combo, n) = position - 1

C14_Witness ==
    /\ pc = "iterating"
    /\ position > 100
    /\ Len(combo) = 4
    /\ combo[1] = combo[2]
    /\ combo[2] < combo[3]
    /\ combo[4] = Len(ballot_types)

\* the rows written so far, over all chunk files
RowsWritten == UNION {{files.parts[c][k] : k \in 1..Len(files.parts[c])} : c \in DOMAIN files.parts}

\* C15: the profile at position i is solved and written if and only if
\* i div R < F or i div R >= ceil(T/R) - L, every other profile is passed
\* over without a resolver call, and there are as many resolver calls as rows
C15_BoundarySampling ==
    pc \in {"iterating", "exhausted"} =>
        LET R == chunking.ROWS_PER_FILE
            T == chunking.total_combinations
            Saved(i) == \/ i \div R < chunking.SAVE_FIRST_CHUNKS
                        \/ i \div R >= Ceil(T, R) - chunking.SAVE_LAST_CHUNKS
        IN /\ \A a \in 1..Len(files.solved) :
                 /\ Saved(files.solved[a])
                 /\ a > 1 => files.solved[a - 1] < files.solved[a]
           /\ {r.row_nr - 1 : r \in RowsWritten} = Range(files.solved)
           /\ Cardinality(RowsWritten) = Len(files.solved)
           /\ (position > 0 /\ Saved(position - 1)) =>
                 (files.solved # <<>> /\ files.solved[Len(files.solved)] = position - 1)
           /\ pc = "exhausted" =>
                 /\ position = T
                 /\ Range(files.solved) = {i \in 0..(T - 1) : Saved(i)}

C15_Witness ==
    /\ pc = "exhausted"
    /\ chunking.total_combinations = 495
    /\ chunking.ROWS_PER_FILE = 3
    /\ chunking.SAVE_FIRST_CHUNKS = 1
    /\ chunking.SAVE_LAST_CHUNKS = 1
    /\ files.solved = <<0, 1, 2, 492, 493, 494>>

\* the menu positions of the ballot types of a written row
TypePositions(r) ==
    [j \in 1..Len(r.ballot_set) |->
        CHOOSE a \in 1..Len(ballot_types) : ballot_types[a] = r.ballot_set[j]]

\* every written row sits in the file of its chunk at the place of its
\* sequence position, a file holds at most ROWS_PER_FILE rows, and the profile
\* and the verdict columns are those of the position, for the row just
\* written and for every row once the loop has ended
RowsBelongToChunk ==
    \A c \in DOMAIN files.parts :
        LET rows == files.parts[c]
            R == chunking.ROWS_PER_FILE
            last == c = files.active_chunk_index
        IN /\ Len(rows) <= R
           /\ \A k \in 1..Len(rows) :
                 LET i == rows[k].row_nr - 1
                     bs == BallotSet(candidates, ballot_types, TypePositions(rows[k]))
                 IN /\ i = c * R + (k - 1)
                    /\ i \div R = c
                    /\ (pc = "exhausted" \/ (last /\ k = Len(rows))) =>
                          /\ Rank(TypePositions(rows[k]), Len(ballot_types)) = i
                          /\ rows[k] = ResultRow(chunking.script, i, rows[k].ballot_set, bs,
                                                 candidates, rows[k].param_block)
           /\ (pc = "exhausted" \/ c < files.active_chunk_index) =>
                 Len(rows) = IF (c + 1) * R <= chunking.total_combinations
                             THEN R ELSE chunking.total_combinations - c * R

\* C16 as stated: every chunk file holds what an exhaustive run writes to it,
\* where only the row at position 0 carries the parameter block
C16_ContentOfConfigurationOnly ==
    pc \in {"iterating", "exhausted"} =>
        /\ RowsBelongToChunk
        /\ \A r \in RowsWritten :
              r.param_block = (chunking.script = "sim_star_crunch" /\ r.row_nr = 1)

\* C16 (amended): the chunk index of position i is i div ROWS_PER_FILE, a
\* chunk file holds the rows of its own chunk only, at most ROWS_PER_FILE of
\* them, and each row is determined by its position, except that in
\* sim_star_crunch the first row written in the run carries the parameter
\* block, whichever chunk it falls in
C16_ChunkFiles ==
    pc \in {"iterating", "exhausted"} =>
        /\ RowsBelongToChunk
        /\ \A r \in RowsWritten :
              r.param_block = (chunking.script = "sim_star_crunch" /\ r.row_nr - 1 = files.solved[1])

C16_Witness ==
    /\ pc = "exhausted"
    /\ chunking.script = "sim_star_crunch"
    /\ chunking.ROWS_PER_FILE = 3
    /\ chunking.SAVE_FIRST_CHUNKS = 0
    /\ chunking.SAVE_LAST_CHUNKS = 2
    /\ chunking.total_combinations = 10
    /\ DOMAIN files.parts = {2, 3}
    /\ Len(files.parts[2]) = 3
    /\ Len(files.parts[3]) = 1
    /\ files.parts[2][1].param_block

\* the rows the Hunter appended for verified samples, and its RESULT rows
HitRows == {k \in 1..Len(hunter.appended) : Len(hunter.appended[k]) = 5}
MarkerRows ==
    {k \in 1..Len(hunter.appended) :
        Len(hunter.appended[k]) = 2 /\ hunter.appended[k][1] = "RESULT"}

\* time elapsed at the last reading of the clock
Elapsed == hunter.now - hunter.start_time

\* a bound on the steps the Hunter phase can still take: the stage of the
\* phase, then the budget left at the last reading of the clock, then the
\* ballots of the sample still to draw
StepsLeft ==
    LET k == num_ballots + 2
        left == IF hunter.scenarios_checked = 0 THEN hunter.SEARCH_TIME_LIMIT + 1
                ELSE hunter.SEARCH_TIME_LIMIT - Elapsed
        stage == CASE pc = "exhausted" -> 3
                   [] pc \in {"hunting", "profile"} -> 2
                   [] pc = "loop_ended" -> 1
                   [] OTHER -> 0
        inner == IF pc = "profile" THEN num_ballots + 1 - Len(ballots) ELSE 0
    IN IF stage = 2
       THEN 2 * (hunter.SEARCH_TIME_LIMIT + 2) * k + left * k + inner
       ELSE stage * (hunter.SEARCH_TIME_LIMIT + 2) * k

\* some step of the Hunter phase is possible: the guards of its actions
HunterCanStep ==
    \/ pc = "exhausted" /\ chunking.script = "sim_total_divergence3"
    \/ /\ pc = "hunting"
       /\ (IF hunter.scenarios_checked = 0 THEN 0 ELSE hunter.now + 1)
              <= hunter.start_time + hunter.SEARCH_TIME_LIMIT
    \/ pc = "profile" /\ Len(ballots) < num_ballots /\ Len(ballot_types) > 0
    \/ pc = "profile" /\ Len(ballots) = num_ballots /\ hunter.scenarios_checked > 0
    \/ pc = "loop_ended"

\* C17: scenarios_checked grows only at a check at the top of the loop that
\* read less than SEARCH_TIME_LIMIT, before any ballot of the sample is drawn;
\* the loop ends at the first check that reads SEARCH_TIME_LIMIT or more and
\* right after the first verified hit; and with a clock that advances from
\* check to check every step brings the end of the phase nearer and a step
\* is possible until the phase has ended, so the phase terminates
C17_HunterStops ==
    /\ [][/\ hunter'.scenarios_checked # hunter.scenarios_checked =>
                /\ pc = "hunting" /\ pc' = "profile"
                /\ hunter'.scenarios_checked = hunter.scenarios_checked + 1
                /\ hunter'.now - hunter'.start_time < hunter.SEARCH_TIME_LIMIT
                /\ ballots' = <<>>
          /\ (pc = "hunting" /\ pc' = "loop_ended") <=>
                (pc = "hunting" /\ hunter'.now - hunter'.start_time >= hunter.SEARCH_TIME_LIMIT)
          /\ (pc = "hunting" /\ hunter.scenarios_checked > 0) => hunter'.now > hunter.now
          /\ (~hunter.found_in_hunter /\ hunter'.found_in_hunter) =>
                (pc = "profile" /\ pc' = "loop_ended")
          /\ pc = "loop_ended" => (pc' = "done" /\ ballots' = ballots)
          /\ StepsLeft' < StepsLeft
         ]_vars
    /\ [](/\ pc = "profile" => (hunter.scenarios_checked >= 1 /\ Elapsed < hunter.SEARCH_TIME_LIMIT)
          /\ hunter.scenarios_checked <= hunter.SEARCH_TIME_LIMIT
          /\ Cardinality(HitRows) <= 1
          /\ StepsLeft >= 0
          /\ pc # "done" => HunterCanStep
          /\ pc \in {"loop_ended", "done"} =>
                (files.last_filename = NoFilename \/ hunter.found_in_hunter
                    \/ Elapsed >= hunter.SEARCH_TIME_LIMIT))


C17_Witness ==
    /\ pc = "done"
    /\ hunter.SEARCH_TIME_LIMIT = 2
    /\ hunter.scenarios_checked = 2
    /\ hunter.found_in_hunter
    /\ Elapsed = 1

\* C18: once the Hunter has stopped, its output names the number of samples
\* examined: a row or a message carries scenarios_checked
C18_SamplesReported ==
    (pc = "done" /\ hunter.appended # <<>>) =>
        \/ \E k \in HitRows :
              hunter.appended[k][1] = <<"HUNTER_", hunter.scenarios_checked>>
        \/ \E k \in MarkerRows :
              \E j \in 1..Len(hunter.appended[k][2]) :
                  /\ hunter.appended[k][2][j].expr = "scenarios_checked"
                  /\ hunter.appended[k][2][j].value = hunter.scenarios_checked

\* C19: when the run is over, exactly one of a hit row and a RESULT row has
\* been written after the Phase 1 output
C19_HitRowOrMarker ==
    pc = "done" => Cardinality(HitRows) + Cardinality(MarkerRows) = 1

ResultRowsAfter(n) ==
    {j \in (n + 1)..Len(hunter.appended) :
        \/ Len(hunter.appended[j]) = 5
        \/ Len(hunter.appended[j]) = 2}

Ended == pc \in {"done", "crashed"} \/ (pc = "interrupted" /\ chunking.script = "sim_star_crunch")

C21_InterruptHandled ==
    files.interrupt.seen =>
        /\ files.interrupt.caught
        /\ pc # "crashed"
        /\ Ended => files.open_files = {}
        /\ Len(files.solved) = files.interrupt.rows_before
        /\ ResultRowsAfter(files.interrupt.appended_before) = {}
        /\ Ended => \E j \in 1..Len(files.console) :
                        files.console[j] \in {"Process interrupted by user.", "Interrupted."}

\* what sim_star_crunch does on an interrupt: caught, file closed, no row
\* after it, the interruption and the closing line printed
C21_CrunchHandled ==
    (files.interrupt.seen /\ chunking.script = "sim_star_crunch") => C21_InterruptHandled

\* an interrupt during Phase 1 of sim_total_divergence3 after which the
\* Hunter has appended its RESULT marker
C21_RowAfterInterrupt ==
    /\ files.interrupt.seen
    /\ files.interrupt.caught
    /\ ResultRowsAfter(files.interrupt.appended_before) # {}

\* the two ballots (5,0) and (0,5), 5 being the largest score
TwoOpposedBallots ==
    /\ candidates = <<"A", "B">>
    /\ Len(ballots) = 2
    /\ Range(ballots) = {[c \in {"A", "B"} |-> IF c = "A" THEN MaxScore ELSE 0],
                         [c \in {"A", "B"} |-> IF c = "B" THEN MaxScore ELSE 0]}

\* C22: for candidates [A,B] and the two ballots (5,0) and (0,5) the Score
\* totals tie, there is no Condorcet winner, the finalists tie in the scoring
\* round and one to one in the runoff, and with the priority order [A,B] of
\* the first-listed mode the STAR winner is A
C22_TwoBallotTie ==
    (pc = "elected" /\ TwoOpposedBallots /\ tb.mode \in {"first", "left"}) =>
        /\ score.totals["A"] = MaxScore /\ score.totals["B"] = MaxScore
        /\ cw.winner = None
        /\ {star.finalist_a, star.finalist_b} = {"A", "B"}
        /\ matrix["A"]["B"] = <<1, 1, 0>>
        /\ tb.preferred_order = <<"A", "B">>
        /\ star.winner = "A"

C22_Witness ==
    /\ pc = "elected"
    /\ TwoOpposedBallots
    /\ tb.mode = "first"
    /\ star.winner = "A"

\* the ballot a run of scores stands for
BallotOfRun(run_) == [c \in Range(candidates) |-> run_[IndexOf(candidates, c) + 1]]

\* the ballots the runs of a row of the right length stand for, weight times
RECURSIVE ExpectedOfRuns(_, _)
ExpectedOfRuns(runs, weight) ==
    IF runs = <<>> THEN <<>>
    ELSE (IF Len(Head(runs)) = Len(candidates)
          THEN Repeat(BallotOfRun(Head(runs)), weight) ELSE <<>>)
         \o ExpectedOfRuns(Tail(runs), weight)

\* the ballots of the rows csv_input[2] to csv_input[k]
RECURSIVE ExpectedBallots(_)
ExpectedBallots(k) ==
    IF k <= 1 THEN <<>>
    ELSE ExpectedBallots(k - 1) \o ExpectedOfRuns(csv_input[k].runs, csv_input[k].weight)

\* the runs of row k whose number of scores is not the number of candidates
Mismatched(k) ==
    {j \in 1..Len(csv_input[k].runs) : Len(csv_input[k].runs[j]) # Len(candidates)}

\* the number of the line of row k among the lines that are not blank
LineNum(k) == Cardinality({i \in 1..k : csv_input[i].line # <<>>})

Warned(k, j) ==
    \E w \in 1..Len(parsed.warnings) :
        /\ parsed.warnings[w].line_num = LineNum(k)
        /\ parsed.warnings[w].digits = Len(csv_input[k].runs[j])

\* C25: after parsing, every run of scores whose length does not match the
\* header has a warning, no such run has given a ballot, and the ballots are
\* those of the well-formed rows before and after it, in order
C25_DroppedWithWarning ==
    pc = "parsed" =>
        /\ parsed.ballots = ExpectedBallots(Len(csv_input))
        /\ \A k \in 2..Len(csv_input) : \A j \in Mismatched(k) : Warned(k, j)

\* what both parsers do: a mismatched row gives no ballot and the rows around
\* it give theirs
C25_ParsingContinues ==
    pc = "parsed" => parsed.ballots = ExpectedBallots(Len(csv_input))

\* a mismatched row between two well-formed rows was parsed
C25_RowBetween ==
    /\ pc = "parsed"
    /\ Len(csv_input) = 4
    /\ Mismatched(2) = {} /\ csv_input[2].form = "csv"
    /\ Mismatched(3) # {}
    /\ Mismatched(4) = {} /\ csv_input[4].form = "csv"
    /\ Len(parsed.ballots) = 2

\* C23: with exactly two candidates the quick STAR resolver makes no
\* comparison against a third candidate: both candidates are the finalists
\* and the result is that of the runoff between the two
C23_TwoCandidatesNoThird ==
    (pc = "star_quick" /\ Len(candidates) = 2) =>
        /\ star.cand_3 = None
        /\ star.finalist_a # star.finalist_b
        /\ {star.finalist_a, star.finalist_b} = Range(candidates)
        /\ star.winner =
              IF Prefer(star.finalist_a, star.finalist_b) > Prefer(star.finalist_b, star.finalist_a)
              THEN star.finalist_a
              ELSE IF Prefer(star.finalist_b, star.finalist_a) > Prefer(star.finalist_a, star.finalist_b)
              THEN star.finalist_b
              ELSE None

\* two candidates of equal total, the runoff won by the second
C23_Witness ==
    /\ pc = "star_quick"
    /\ Len(candidates) = 2
    /\ TotalScore(candidates[1]) = TotalScore(candidates[2])
    /\ star.cand_3 = None
    /\ star.winner = candidates[2]

\* the candidates sharing the highest total score, in list order
TopTied == SelectSeq(candidates, LAMBDA c : TotalScore(c) = TotalScore(Ranked(1)))

\* C24: when two or more candidates share the highest total score, the
\* finalists of the quick STAR resolver are the ones the
\* SilentSequenceTiebreaker chooses among the tied candidates (the
\* alphabetically first two), also when three candidates share the top score
C24_TopTieByStrategy ==
    (pc = "star_quick" /\ Len(TopTied) >= 2) =>
        {star.finalist_a, star.finalist_b} = Range(SilentSequenceTiebreaker(TopTied, 2))

\* what the resolver does with a top tie: two tied candidates are both
\* finalists; of three tied candidates the first in list order is finalist A
\* and finalist B is the third when more ballots prefer it to the second
C24_TopTieByHeadToHead ==
    (pc = "star_quick" /\ Len(TopTied) >= 2) =>
        /\ Len(TopTied) = 2 => {star.finalist_a, star.finalist_b} = Range(TopTied)
        /\ Len(TopTied) = 3 =>
              /\ star.finalist_a = TopTied[1]
              /\ star.finalist_b =
                    IF Prefer(TopTied[3], TopTied[2]) > Prefer(TopTied[2], TopTied[3])
                    THEN TopTied[3] ELSE TopTied[2]

\* three candidates share the top score and the third is a finalist
C24_ThreeWayTie ==
    /\ pc = "star_quick"
    /\ Len(TopTied) = 3
    /\ TotalScore(Ranked(1)) > 0
    /\ star.finalist_b = candidates[3]

\* C26: for every profile with at least two candidates get_star_winner
\* (sim_total_divergence_CW_SCORE_RUNOFF) returns what get_star_winner_quick
\* (sim_total_divergence3) returned for the same ballots, candidates and totals
C26_SameEstimate ==
    (pc = "star_quick" /\ Len(candidates) >= 2) =>
        star.winner = get_star_winner(ballots, candidates,
                                      get_score_winner(ballots, candidates).totals).winner

\* the two estimates agree on every profile of exactly two candidates, and on
\* a profile of three whenever the quick estimate keeps the 2nd-ranked
\* candidate as finalist B
C26_SameWithoutTieBreak ==
    (pc = "star_quick" /\ Len(candidates) >= 2
        /\ (Len(candidates) = 2 \/ star.finalist_b = Ranked(2))) =>
        star.winner = get_star_winner(ballots, candidates,
                                      get_score_winner(ballots, candidates).totals).winner

\* the 3rd-ranked candidate took the finalist slot and won the runoff, while
\* get_star_winner has the 1st-ranked candidate win
C26_ThirdWins ==
    /\ pc = "star_quick"
    /\ Len(candidates) = 3
    /\ star.cand_3 = Ranked(3)
    /\ star.winner = Ranked(3)
    /\ get_star_winner(ballots, candidates,
                        get_score_winner(ballots, candidates).totals).winner = Ranked(1)

\* C27: on every profile the three get_condorcet_winner functions and the
\* Condorcet check of print_matrix give the same winner or None
C27_SameCondorcet ==
    pc \in {"cw_crunch", "cw_div3", "cw_runoff", "cw_matrix"} =>
        /\ get_condorcet_winner_crunch(ballots, candidates).winner = cw.winner
        /\ get_condorcet_winner_div3(ballots, candidates).winner = cw.winner
        /\ get_condorcet_winner_runoff(ballots, candidates).winner = cw.winner
        /\ pc # "cw_matrix" =>
              cw.winner = IF ballots = <<>> THEN None
                          ELSE print_matrix(candidates,
                                            calculate_preference_matrix(candidates, ballots))

\* the three functions agree on every profile, and the check of print_matrix
\* agrees with them on every profile that has a ballot or two candidates
C27_SameOnBallots ==
    pc \in {"cw_crunch", "cw_div3", "cw_runoff", "cw_matrix"} =>
        /\ get_condorcet_winner_crunch(ballots, candidates).winner =
              get_condorcet_winner_div3(ballots, candidates).winner
        /\ get_condorcet_winner_div3(ballots, candidates).winner =
              get_condorcet_winner_runoff(ballots, candidates).winner
        /\ (ballots # <<>> \/ Len(candidates) >= 2) =>
              /\ get_condorcet_winner_crunch(ballots, candidates).winner = cw.winner
              /\ pc # "cw_matrix" =>
                    cw.winner = IF ballots = <<>> THEN None
                                ELSE print_matrix(candidates,
                                                  calculate_preference_matrix(candidates, ballots))

\* the check of print_matrix found a winner that ties no opponent, on a
\* profile with a pairwise tie between two other candidates
C27_MatrixWinner ==
    /\ pc = "cw_matrix"
    /\ Len(candidates) = 3
    /\ cw.winner = candidates[3]
    /\ Prefer(candidates[1], candidates[2]) = Prefer(candidates[2], candidates[1])

\* a single candidate and no ballot: the functions return the candidate
C27_SoleCandidate ==
    /\ pc = "cw_div3"
    /\ Len(candidates) = 1
    /\ ballots = <<>>
    /\ cw.winner = candidates[1]

\* the places of the written rows: chunk file and line within the file
RowPlaces == UNION {{<<c, k>> : k \in 1..Len(files.parts[c])} : c \in DOMAIN files.parts}

RowAt(pl) == files.parts[pl[1]][pl[2]]

\* place x comes before place y in the output
Before(x, y) == x[1] < y[1] \/ (x[1] = y[1] /\ x[2] < y[2])

\* the first and last regions together cover every chunk
RegionsCover == chunking.SAVE_FIRST_CHUNKS + chunking.SAVE_LAST_CHUNKS >= chunking.total_chunks

\* C28: the rows of a run are written in strictly increasing row_nr, the
\* row_nr of a row is the sequence position of its profile plus one, no
\* profile is written twice, and when SAVE_FIRST_CHUNKS + SAVE_LAST_CHUNKS >=
\* total_chunks every profile of the enumeration is solved and written
\* exactly once
C28_RowsOnce ==
    pc \in {"iterating", "exhausted"} =>
        /\ \A a \in 2..Len(files.solved) : files.solved[a - 1] < files.solved[a]
        /\ \A x, y \in RowPlaces :
              /\ Before(x, y) => RowAt(x).row_nr < RowAt(y).row_nr
              /\ RowAt(x).ballot_set = RowAt(y).ballot_set => x = y
        /\ {RowAt(x).row_nr : x \in RowPlaces} = {i + 1 : i \in Range(files.solved)}
        /\ Cardinality(RowPlaces) = Len(files.solved)
        /\ \A x \in RowPlaces :
              (pc = "exhausted" \/ RowAt(x).row_nr = position) =>
                  Rank(TypePositions(RowAt(x)), Len(ballot_types)) + 1 = RowAt(x).row_nr
        /\ (position > 0 /\ RegionsCover) =>
              (files.solved # <<>> /\ files.solved[Len(files.solved)] = position - 1)
        /\ (pc = "exhausted" /\ RegionsCover) =>
              /\ files.solved = [a \in 1..chunking.total_combinations |-> a - 1]
              /\ Cardinality({RowAt(x).ballot_set : x \in RowPlaces}) = chunking.total_combinations

\* a finished run whose first and last regions overlap in the middle chunk
C28_Witness ==
    /\ pc = "exhausted"
    /\ chunking.total_chunks = 3
    /\ chunking.SAVE_FIRST_CHUNKS = 2
    /\ chunking.SAVE_LAST_CHUNKS = 2
    /\ chunking.total_combinations > 3
    /\ Len(files.solved) = chunking.total_combinations
    /\ Cardinality(RowPlaces) = chunking.total_combinations

\* the chunks of the positions solved so far
ChunksSolved == {ChunkIndex(files.solved[a], chunking.ROWS_PER_FILE) : a \in 1..Len(files.solved)}

\* the positions solved so far that fall in chunk c
SolvedIn(c) == {a \in 1..Len(files.solved) :
                   ChunkIndex(files.solved[a], chunking.ROWS_PER_FILE) = c}

\* C29: during the enumeration at most one chunk file is open, the one of
\* the chunk of the profile written last; a file is opened once per chunk
\* that has a written profile, the file before it being closed; every file
\* holds the header as its first line and only there, followed by the rows
\* of its chunk; and after the loop, ended by exhaustion or by an interrupt,
\* no file is open
C29_OneOpenFile ==
    pc \in {"iterating", "exhausted", "interrupted"} =>
        /\ Cardinality(files.open_files) <= 1
        /\ pc = "iterating" =>
              /\ files.open_files = IF files.solved = <<>> THEN {}
                                    ELSE {PartFilename(ChunkIndex(files.solved[Len(files.solved)],
                                                                  chunking.ROWS_PER_FILE))}
              /\ DOMAIN files.layout = ChunksSolved
        /\ pc \in {"exhausted", "interrupted"} => files.open_files = {}
        /\ ChunksSolved \subseteq DOMAIN files.layout
        /\ \A c \in DOMAIN files.layout :
              /\ Len(files.layout[c]) = Cardinality(SolvedIn(c)) + 1
              /\ files.layout[c][1] = "header"
              /\ \A k \in 2..Len(files.layout[c]) : files.layout[c][k] = "row"
              /\ c \notin ChunksSolved => (pc = "interrupted" /\ c = files.active_chunk_index)

\* a finished run that wrote two chunks of more than one row each with a
\* skipped zone between them
C29_Witness ==
    /\ pc = "exhausted"
    /\ files.open_files = {}
    /\ Cardinality(DOMAIN files.layout) = 2
    /\ \A c \in DOMAIN files.layout : Len(files.layout[c]) = 3
    /\ Len(files.solved) = 4
    /\ files.solved[3] > files.solved[2] + 1

\* an interrupted run whose last file was opened and closed without a row
C29_InterruptedAfterOpen ==
    /\ pc = "interrupted"
    /\ files.open_files = {}
    /\ \E c \in DOMAIN files.layout : c \notin ChunksSolved
    /\ files.solved # <<>>

\* C30: a Phase 1 row flagged "Y: TRIPLE_DIV" has a STAR winner that is not
\* among the candidates sharing the maximum total score
C30_TripleOutsideLeaders ==
    (pc = "row" /\ row.div_flag = <<"Y: TRIPLE_DIV">>) =>
        row.winner \notin Range(TopTied)

\* C30 (amended): a Phase 1 row flagged "Y: TRIPLE_DIV" has a Condorcet
\* winner, and its STAR winner differs from the Condorcet winner and from the
\* Score winner, the first candidate in list order with the maximum total;
\* the STAR winner is outside the candidates sharing the maximum total
\* whenever a single candidate has it
C30_TripleOutsideScoreWinner ==
    (pc = "row" /\ row.div_flag = <<"Y: TRIPLE_DIV">>) =>
        /\ row.sw = TopTied[1]
        /\ row.winner # TopTied[1]
        /\ row.cw \in Range(candidates) \ {row.winner, TopTied[1]}
        /\ Len(TopTied) = 1 => row.winner \notin Range(TopTied)

\* a row flagged as triple divergence whose STAR winner shares the maximum
\* total with the Score winner
C30_Witness ==
    /\ pc = "row"
    /\ row.div_flag = <<"Y: TRIPLE_DIV">>
    /\ Len(TopTied) = 2
    /\ row.sw = TopTied[1]
    /\ row.winner = TopTied[2]

====
